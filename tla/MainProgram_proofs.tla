------------------------- MODULE MainProgram_proofs -------------------------
(***************************************************************************)
(* For any words and any number of arguments: main() is a behaviour of its *)
(* two parts, exactly the proper calls are accepted, and the server        *)
(* computes with what it was called with.  For any number of lines and of  *)
(* times the disk fills up: -v decides whether the connections are heard,  *)
(* and the log file follows the screen up to the line that says why the    *)
(* server aborts.                                                          *)
(***************************************************************************)
EXTENDS MainProgram, SequenceTheorems, WellFoundedInduction, FiniteSetTheorems, TLAPS

-----------------------------------------------------------------------------
(* Reading the arguments.                                                  *)

LEMMA RemovedAt ==
  ASSUME NEW S, NEW s \in Seq(S), NEW i \in 1..Len(s)
  PROVE  /\ Len(RemoveAt(s, i)) = Len(s) - 1
         /\ \A p \in 1..Len(s) - 1 : RemoveAt(s, i)[p] = IF p >= i THEN s[p + 1] ELSE s[p]
<1> DEFINE a == SubSeq(s, 1, i - 1)
           b == SubSeq(s, i + 1, Len(s))
<1>0. Len(s) \in Nat /\ i \in Nat /\ \A p \in 1..Len(s) : s[p] \in S
  BY LenProperties
<1>1. /\ a \in Seq(S) /\ Len(a) = i - 1
      /\ \A p \in 1..i - 1 : a[p] = s[p]
  <2>1. 1 \in Int /\ i - 1 \in Int /\ \A p \in 1..i - 1 : s[p] \in S
    BY <1>0
  <2>2. /\ a \in Seq(S) /\ Len(a) = IF 1 <= i - 1 THEN (i - 1) - 1 + 1 ELSE 0
        /\ \A p \in 1..(i - 1) - 1 + 1 : a[p] = s[1 + p - 1]
    BY <2>1, SubSeqProperties
  <2> HIDE DEF a
  <2> QED BY <1>0, <2>2
<1>2. /\ b \in Seq(S) /\ Len(b) = Len(s) - i
      /\ \A p \in 1..Len(s) - i : b[p] = s[i + p]
  <2>1. i + 1 \in Int /\ Len(s) \in Int /\ \A p \in i + 1..Len(s) : s[p] \in S
    BY <1>0
  <2>2. /\ b \in Seq(S) /\ Len(b) = IF i + 1 <= Len(s) THEN Len(s) - (i + 1) + 1 ELSE 0
        /\ \A p \in 1..Len(s) - (i + 1) + 1 : b[p] = s[i + 1 + p - 1]
    BY <2>1, SubSeqProperties
  <2> HIDE DEF b
  <2> QED BY <1>0, <2>2
<1>3. RemoveAt(s, i) = a \o b
  BY DEF RemoveAt
<1> HIDE DEF a, b
<1>4. /\ Len(a \o b) = Len(a) + Len(b)
      /\ \A p \in 1..Len(a) + Len(b) :
           (a \o b)[p] = IF p <= Len(a) THEN a[p] ELSE b[p - Len(a)]
  BY <1>1, <1>2, ConcatProperties
<1> QED BY <1>0, <1>1, <1>2, <1>3, <1>4

LEMMA Least ==
  ASSUME NEW T, T \subseteq Nat, T # {}
  PROVE  \E x \in T : \A y \in T : x <= y
<1> DEFINE R == OpToRel(<, Nat)
<1>1. IsWellFoundedOn(R, Nat)
  BY NatLessThanWellFounded
<1>2. \A x \in Nat, y \in Nat : y < x => <<y, x>> \in R
  BY DEF OpToRel
<1> HIDE DEF R
<1>3. PICK x \in T : \A y \in T : <<y, x>> \notin R
  BY <1>1, WFMin
<1>4. ASSUME NEW y \in T
      PROVE  x <= y
  <2>1. x \in Nat /\ y \in Nat
    OBVIOUS
  <2>2. ~(y < x)
    <3>1. <<y, x>> \notin R
      BY <1>3
    <3> QED BY <1>2, <2>1, <3>1
  <2> QED BY <2>1, <2>2
<1> QED BY <1>4

(* The flag's index is that of the first flag.                             *)
LEMMA FlagFound ==
  ASSUME args \in Seq(Words)
  PROVE  /\ Verbose <=> \E i \in 1..Len(args) : args[i] = Flag
         /\ Verbose => VerboseArgIndex \in 1..Len(args) /\ args[VerboseArgIndex] = Flag
<1> DEFINE T == {i \in 1..Len(args) : args[i] = Flag}
<1>0. Len(args) \in Nat /\ T \subseteq Nat
  BY LenProperties
<1>1. ASSUME T # {}
      PROVE  \E k \in 1..Len(args) : args[k] = Flag /\ \A j \in 1..k - 1 : args[j] # Flag
  <2>1. PICK k \in T : \A j \in T : k <= j
    BY <1>0, <1>1, Least
  <2> QED BY <1>0, <2>1
<1> DEFINE First(k) == args[k] = Flag /\ \A j \in 1..k - 1 : args[j] # Flag
<1>2. CASE T # {}
  <2>1. (\E i \in 1..Len(args) : args[i] = Flag) /\ \E k \in 1..Len(args) : First(k)
    BY <1>1, <1>2
  <2>2. VerboseArgIndex = CHOOSE k \in 1..Len(args) : First(k)
    BY <2>1 DEF VerboseArgIndex
  <2>3. VerboseArgIndex \in 1..Len(args) /\ First(VerboseArgIndex)
    <3> HIDE DEF First
    <3> QED BY <2>1, <2>2
  <2> QED BY <1>0, <2>1, <2>3 DEF Verbose
<1>3. CASE T = {}
  BY <1>3 DEF Verbose, VerboseArgIndex
<1> QED BY <1>2, <1>3

(* What the program makes of its arguments is a reading of them.           *)
AsRead == IF Verbose THEN RemoveAt(args, VerboseArgIndex) ELSE args

LEMMA AsReadIs ==
  ASSUME args \in Seq(Words)
  PROVE  /\ AsRead \in Readings /\ Parameters \in Int /\ Len(AsRead) = Parameters
         /\ \A p \in 1..Parameters : GetArgAtPos(p) = AsRead[p]
<1>0. Len(args) \in Nat /\ DOMAIN args = 1..Len(args)
  BY LenProperties
<1>1. CASE Verbose
  <2>1. VerboseArgIndex \in 1..Len(args) /\ args[VerboseArgIndex] = Flag
    BY <1>1, FlagFound
  <2>2. AsRead = RemoveAt(args, VerboseArgIndex)
    BY <1>1 DEF AsRead
  <2>3. AsRead \in Readings
    BY <1>0, <2>1, <2>2 DEF Readings
  <2>4. /\ Len(AsRead) = Len(args) - 1
        /\ \A p \in 1..Len(args) - 1 :
             AsRead[p] = IF p >= VerboseArgIndex THEN args[p + 1] ELSE args[p]
    BY <2>1, <2>2, RemovedAt
  <2> QED BY <1>0, <1>1, <2>3, <2>4 DEF Parameters, GetArgAtPos
<1>2. CASE ~Verbose
  BY <1>0, <1>2 DEF AsRead, Readings, Parameters, GetArgAtPos
<1> QED BY <1>1, <1>2

(* A word that stands for a parameter is not the flag, so no other reading *)
(* of a proper call has parameters.                                        *)
LEMMA NoFlag ==
  ASSUME NEW given, AreParameters(given)
  PROVE  \A p \in 1..Len(given) : given[p] # Flag
<1>1. \A w, min, max : InRange(w, min, max) \/ w \in Addresses => w # Flag
  BY StartupAssumption DEF InRange
<1>2. CASE program = "server"
  <2>1. /\ Len(given) \in {3, 4} /\ given[1] # Flag /\ given[2] # Flag /\ given[3] # Flag
        /\ Len(given) = 4 => given[4] # Flag
    BY <1>1, <1>2, Zenon DEF AreParameters
  <2> QED BY <2>1
<1>3. CASE program # "server"
  <2>1. Len(given) = 2 /\ given[1] # Flag /\ given[2] # Flag
    BY <1>1, <1>3, Zenon DEF AreParameters
  <2> QED BY <2>1
<1> QED BY <1>2, <1>3

LEMMA OneReading ==
  ASSUME args \in Seq(Words), NEW given \in Readings, AreParameters(given)
  PROVE  given = AsRead
<1>0. /\ Len(args) \in Nat /\ DOMAIN args = 1..Len(args)
      /\ \A p \in 1..Len(given) : given[p] # Flag
  BY LenProperties, NoFlag
<1>1. CASE given = args
  BY <1>0, <1>1, FlagFound DEF AsRead
<1>2. ASSUME NEW i \in DOMAIN args, args[i] = Flag, given = RemoveAt(args, i)
      PROVE  given = AsRead
  <2> DEFINE v == VerboseArgIndex
  <2>0. i \in 1..Len(args)
    BY <1>0
  <2>1. v \in 1..Len(args) /\ args[v] = Flag /\ Verbose
    <3>1. Verbose
      BY <1>2, <2>0, FlagFound
    <3> QED BY <3>1, FlagFound
  <2>2. /\ Len(given) = Len(args) - 1
        /\ \A p \in 1..Len(args) - 1 : given[p] = IF p >= i THEN args[p + 1] ELSE args[p]
    <3>1. /\ Len(RemoveAt(args, i)) = Len(args) - 1
          /\ \A p \in 1..Len(args) - 1 :
               RemoveAt(args, i)[p] = IF p >= i THEN args[p + 1] ELSE args[p]
      BY <2>0, RemovedAt, Zenon
    <3> QED BY <1>2, <3>1, Zenon
  <2> HIDE DEF v
  <2>3. ~(v < i)
    <3> SUFFICES ASSUME v < i PROVE FALSE
      OBVIOUS
    <3>1. v \in 1..Len(args) - 1 /\ given[v] = args[v]
      BY <1>0, <1>2, <2>1, <2>2
    <3> QED BY <1>0, <2>1, <2>2, <3>1
  <2>4. ~(v > i)
    <3> SUFFICES ASSUME v > i PROVE FALSE
      OBVIOUS
    <3>1. v - 1 \in 1..Len(args) - 1 /\ v - 1 >= i /\ (v - 1) + 1 = v
      BY <1>0, <1>2, <2>1
    <3>2. given[v - 1] = args[v]
      BY <2>2, <3>1
    <3> QED BY <1>0, <2>1, <2>2, <3>1, <3>2
  <2>5. v = i
    <3>1. v \in Int /\ i \in Int
      BY <1>0, <1>2, <2>1
    <3> QED BY <2>3, <2>4, <3>1
  <2>6. AsRead = RemoveAt(args, v)
    BY <2>1 DEF AsRead, v
  <2> QED BY <1>2, <2>5, <2>6
<1> QED BY <1>0, <1>1, <1>2 DEF Readings

(* The tests of main() accept what the usage describes.                    *)
LEMMA AcceptedIsProper ==
  ASSUME args \in Seq(Words), program \in Programs
  PROVE  /\ IsProperCall <=> ArgumentCountRight /\ ParametersAccepted
         /\ IsProperCall => AsRead \in Readings /\ AreParameters(AsRead)
<1>0. /\ AsRead \in Readings /\ Parameters \in Int /\ Len(AsRead) = Parameters
      /\ \A p \in 1..Parameters : GetArgAtPos(p) = AsRead[p]
  BY AsReadIs
<1>1. \A w, min, max : min \in Nat /\ max \in Nat =>
        (InRange(w, min, max) <=> HandleParameter(w, min, max))
  BY StartupAssumption DEF InRange, HandleParameter
<1>2. MaxSide \in Nat /\ MaxPoints \in Nat /\ MaxDigits \in Nat /\ MaxPort \in Nat
  BY StartupAssumption
<1>3. AreParameters(AsRead) <=> ArgumentCountRight /\ ParametersAccepted
  <2>1. CASE program = "server" /\ Parameters \in {3, 4}
    <3>1. /\ GetArgAtPos(1) = AsRead[1] /\ GetArgAtPos(2) = AsRead[2]
          /\ GetArgAtPos(3) = AsRead[3]
          /\ Parameters = 4 => GetArgAtPos(4) = AsRead[4]
      BY <1>0, <2>1
    <3>2. /\ InRange(AsRead[1], 1, MaxSide) <=> HandleArgument(1, Limits.side)
          /\ InRange(AsRead[2], 1, MaxPoints) <=> HandleArgument(2, Limits.points)
          /\ InRange(AsRead[3], 0, MaxDigits) <=> HandleArgument(3, Limits.digits)
          /\ Parameters = 4 =>
               (InRange(AsRead[4], 1, MaxPort) <=> HandleArgument(4, Limits.port))
      BY <1>1, <1>2, <3>1 DEF HandleArgument, Limits
    <3> QED BY <1>0, <2>1, <3>2 DEF AreParameters, ArgumentCountRight, ParametersAccepted
  <2>2. CASE program # "server" /\ Parameters = 2
    <3>1. GetArgAtPos(1) = AsRead[1] /\ GetArgAtPos(2) = AsRead[2]
      BY <1>0, <2>2
    <3>2. InRange(AsRead[2], 1, MaxPort) <=> HandleArgument(2, Limits.port)
      BY <1>1, <1>2, <3>1 DEF HandleArgument, Limits
    <3> QED BY <1>0, <2>2, <3>1, <3>2 DEF AreParameters, ArgumentCountRight, ParametersAccepted
  <2>3. CASE ~ArgumentCountRight
    BY <1>0, <2>3 DEF AreParameters, ArgumentCountRight
  <2> QED BY <2>1, <2>2, <2>3 DEF ArgumentCountRight
<1> QED BY <1>0, <1>3, OneReading DEF IsProperCall

-----------------------------------------------------------------------------
(* main() and its two parts.                                               *)

LEMMA PartSteps ==
  ASSUME [MainNext]_mainVars
  PROVE  [StartupNext]_startupVars /\ [LogNext]_logVars
<1>1. CASE StaticStorage
  BY <1>1 DEF StaticStorage, LogNext
<1>2. CASE HandleArguments
  BY <1>2 DEF HandleArguments, StartupNext
<1>3. CASE ConfigureLogger
  BY <1>3 DEF ConfigureLogger, LogNext
<1>4. CASE StartUp
  BY <1>4 DEF StartUp, StartupNext
<1>5. CASE Loop
  BY <1>5 DEF Loop, LogNext
<1>6. CASE UNCHANGED mainVars
  BY <1>6 DEF mainVars
<1> QED BY <1>1, <1>2, <1>3, <1>4, <1>5, <1>6 DEF MainNext

(* main() does nothing but what its two parts do: every step of it is a    *)
(* step of each part or leaves that part as it is, and it begins as they   *)
(* begin.                                                                  *)
THEOREM MainImplements == MainSpec => StartupSpec /\ LogSpec
<1>1. MainInit => StartupInit /\ LogInit
  BY DEF MainInit
<1>2. [MainNext]_mainVars => [StartupNext]_startupVars /\ [LogNext]_logVars
  BY PartSteps
<1> QED BY <1>1, <1>2, PTL DEF MainSpec, StartupSpec, LogSpec

-----------------------------------------------------------------------------
(* What has been made of the arguments, phase by phase.                    *)
Asked == [side |-> NumberOf[GetArgAtPos(1)], points |-> NumberOf[GetArgAtPos(2)],
          digits |-> NumberOf[GetArgAtPos(3)]]

Accepted == ArgumentCountRight /\ ParametersAccepted

StartInv ==
  /\ program \in Programs /\ args \in Seq(Words)
  /\ phase \in {"called", "refused", "accepted", "opened", "configured", "running",
                "failed", "aborted"}
  /\ phase = "refused" => ~Accepted
  /\ phase \notin {"called", "refused"} => Accepted
  /\ phase \in {"opened", "configured"} => program = "server"
  /\ IF phase = "configured" \/ (program = "server" /\ phase \in {"running", "aborted"})
     THEN configured = Asked ELSE configured = None
  /\ phase = "running" /\ program = "server" => instance = Asked
  /\ phase = "aborted" /\ program = "server" => ~ConstructorAccepts(configured)

LEMMA AskedIs ==
  ASSUME Accepted, program = "server"
  PROVE  /\ Asked.side \in 1..MaxSide /\ Asked.points \in 1..MaxPoints
         /\ Asked.digits \in 0..MaxDigits
<1> QED BY StartupAssumption
      DEF Accepted, ParametersAccepted, HandleArgument, HandleParameter, Limits, Asked

(* Neither changes as long as the arguments are the same.                  *)
LEMMA SameCall ==
  ASSUME UNCHANGED <<program, args>>
  PROVE  Accepted' = Accepted /\ Asked' = Asked /\ Verbose' = Verbose
<1>1. VerboseArgIndex' = VerboseArgIndex
  BY DEF VerboseArgIndex
<1>2. Verbose' = Verbose
  BY <1>1 DEF Verbose
<1>3. Parameters' = Parameters /\ \A p : GetArgAtPos(p)' = GetArgAtPos(p)
  BY <1>1, <1>2 DEF Parameters, GetArgAtPos
<1>4. ArgumentCountRight' = ArgumentCountRight
  BY <1>3, Zenon DEF ArgumentCountRight
<1>5. ParametersAccepted' = ParametersAccepted
  BY <1>3, Zenon DEF ParametersAccepted, HandleArgument
<1> QED BY <1>2, <1>3, <1>4, <1>5 DEF Accepted, Asked

LEMMA StartBegins ==
  ASSUME StartupInit
  PROVE  StartInv
<1>1. args \in Seq(Words)
  BY StartupAssumption DEF StartupInit
<1> QED BY <1>1 DEF StartupInit, StartInv

LEMMA StartStays ==
  ASSUME StartInv, [StartupNext]_startupVars
  PROVE  StartInv'
<1>1. CASE UNCHANGED startupVars
  <2>1. Accepted' = Accepted /\ Asked' = Asked
    BY <1>1, SameCall DEF startupVars
  <2> QED BY <1>1, <2>1 DEF startupVars, StartInv, ConstructorAccepts
<1>2. ASSUME StartupNext
      PROVE  UNCHANGED <<program, args>> /\ Accepted' = Accepted /\ Asked' = Asked
  <2>1. UNCHANGED <<program, args>>
    BY <1>2 DEF StartupNext, PrintUsage, RefuseParameter, AcceptParameters, OpenSocket,
      SocketFails, Configure, GetInstance, GetInstanceThrows
  <2> QED BY <2>1, SameCall
<1>3. CASE PrintUsage \/ RefuseParameter \/ AcceptParameters
  BY <1>2, <1>3 DEF StartupNext, PrintUsage, RefuseParameter, AcceptParameters, StartInv,
    Accepted
<1>4. CASE OpenSocket \/ SocketFails
  BY <1>2, <1>4 DEF StartupNext, OpenSocket, SocketFails, StartInv
<1>5. CASE Configure
  BY <1>2, <1>5 DEF StartupNext, Configure, StartInv, Asked
<1>6. CASE GetInstance \/ GetInstanceThrows
  BY <1>2, <1>6 DEF StartupNext, GetInstance, GetInstanceThrows, StartInv, ConstructorAccepts
<1> QED BY <1>1, <1>3, <1>4, <1>5, <1>6 DEF StartupNext

LEMMA StartInvariant == MainSpec => []StartInv
<1>1. StartupInit => StartInv
  BY StartBegins
<1>2. StartInv /\ [StartupNext]_startupVars => StartInv'
  BY StartStays
<1> QED BY <1>1, <1>2, MainImplements, PTL DEF StartupSpec

(* The server never gives up once it is configured but for a number of     *)
(* digits of 0: getInstance() accepts everything else that main() accepts. *)
THEOREM StartupTypeCorrect == MainSpec => []StartupTypeOK
<1>1. StartInv => StartupTypeOK
  <2> SUFFICES ASSUME StartInv PROVE StartupTypeOK
    OBVIOUS
  <2>1. {MaxSide, MaxPoints, MaxDigits} \subseteq Nat
    BY StartupAssumption
  <2>2. CASE configured = None
    BY <2>1, <2>2 DEF StartInv, StartupTypeOK, None
  <2>3. CASE configured # None
    <3>1. program = "server" /\ configured = Asked /\ Accepted
      BY <2>3 DEF StartInv
    <3>2. /\ Asked.side \in 1..MaxSide /\ Asked.points \in 1..MaxPoints
          /\ Asked.digits \in 0..MaxDigits
      BY <3>1, AskedIs
    <3> QED BY <2>1, <3>1, <3>2 DEF StartInv, StartupTypeOK, ConstructorAccepts
  <2> QED BY <2>2, <2>3
<1> QED BY <1>1, StartInvariant, PTL

(* The tests of main() let through exactly the calls the usage describes,  *)
(* for any number of arguments and wherever -v stands among them.          *)
THEOREM ProperCallsCorrect == MainSpec => []ProperCallsAccepted
<1>1. StartInv => ProperCallsAccepted
  <2> SUFFICES ASSUME StartInv PROVE ProperCallsAccepted
    OBVIOUS
  <2>1. IsProperCall <=> Accepted
    BY AcceptedIsProper DEF StartInv, Accepted
  <2> QED BY <2>1 DEF StartInv, ProperCallsAccepted
<1> QED BY <1>1, StartInvariant, PTL

(* The one SolutionManager has the side, points and digits of the call:    *)
(* getArgAtPos() finds them behind and before -v, and configure() and      *)
(* getInstance() hand each to its own field.                               *)
THEOREM ServesCorrect == MainSpec => []ServesWhatWasAsked
<1>1. StartInv => ServesWhatWasAsked
  <2> SUFFICES ASSUME StartInv, phase = "running", program = "server"
               PROVE  \E given \in Readings :
                        /\ AreParameters(given)
                        /\ instance = [side |-> NumberOf[given[1]],
                                       points |-> NumberOf[given[2]],
                                       digits |-> NumberOf[given[3]]]
    BY DEF ServesWhatWasAsked
  <2>1. Accepted /\ instance = Asked /\ args \in Seq(Words) /\ program \in Programs
    BY DEF StartInv
  <2>2. AsRead \in Readings /\ AreParameters(AsRead)
    BY <2>1, AcceptedIsProper DEF Accepted
  <2>3. Parameters \in {3, 4} /\ \A p \in 1..Parameters : GetArgAtPos(p) = AsRead[p]
    BY <2>1, AsReadIs DEF Accepted, ArgumentCountRight
  <2>4. /\ GetArgAtPos(1) = AsRead[1] /\ GetArgAtPos(2) = AsRead[2]
        /\ GetArgAtPos(3) = AsRead[3]
    BY <2>3
  <2>5. instance = [side |-> NumberOf[AsRead[1]], points |-> NumberOf[AsRead[2]],
                    digits |-> NumberOf[AsRead[3]]]
    BY <2>1, <2>4 DEF Asked
  <2> QED BY <2>2, <2>5
<1> QED BY <1>1, StartInvariant, PTL

-----------------------------------------------------------------------------
(* The loggers.  They are configured by folds over lists; each operator    *)
(* that is folded has a copy of Fold_proofs, whose FoldLeft is the same.   *)
One == INSTANCE Fold_proofs WITH Op <- SetOne
Each == INSTANCE Fold_proofs WITH Op <- SetList
Value == INSTANCE Fold_proofs WITH Op <- SetValue
Opening == INSTANCE Fold_proofs WITH Op <- LAMBDA b, e : InsertFile(b, e, TRUE)
Failing == INSTANCE Fold_proofs WITH Op <- LAMBDA b, e : InsertFile(b, e, FALSE)

LEMMA OneFold ==
  ASSUME NEW base, NEW seq
  PROVE  FoldLeft(SetOne, base, seq) = One!FoldLeft(SetOne, base, seq)
<1> QED BY DEF FoldLeft, One!FoldLeft, MapThenFoldSet, One!MapThenFoldSet, Max, One!Max

LEMMA EachFold ==
  ASSUME NEW base, NEW seq
  PROVE  FoldLeft(SetList, base, seq) = Each!FoldLeft(SetList, base, seq)
<1> QED BY DEF FoldLeft, Each!FoldLeft, MapThenFoldSet, Each!MapThenFoldSet, Max, Each!Max

LEMMA ValueFold ==
  ASSUME NEW base, NEW seq
  PROVE  FoldLeft(SetValue, base, seq) = Value!FoldLeft(SetValue, base, seq)
<1> QED BY DEF FoldLeft, Value!FoldLeft, MapThenFoldSet, Value!MapThenFoldSet, Max, Value!Max

-----------------------------------------------------------------------------
(* Lists of entries: what their values may be.                             *)
Entries(V) == [level : LevelSet \cup {"Global"}, value : V]

(* A list that is empty or begins with Level::Global, and one that has an  *)
(* entry for every level.                                                  *)
Starts(V) == {list \in Seq(Entries(V)) : list # <<>> => list[1].level = "Global"}

Filled(V) == {list \in Starts(V) : list # <<>> /\ \A l \in LevelSet : HasLevel(list, l)}

LEMMA LevelsAre ==
  /\ Len(Levels) = 7 /\ DOMAIN Levels = 1..7
  /\ \A l : l \in LevelSet <=> \E k \in 1..7 : Levels[k] = l
  /\ "Global" \notin LevelSet /\ "Info" \in LevelSet /\ "Debug" \in LevelSet
  /\ "Error" \in LevelSet /\ "Fatal" \in LevelSet /\ "Verbose" \in LevelSet
  /\ "Trace" \in LevelSet /\ "Warning" \in LevelSet
<1>1. Len(Levels) = 7 /\ DOMAIN Levels = 1..7
  BY DEF Levels
<1>2. \A l : l \in LevelSet <=> \E k \in 1..7 : Levels[k] = l
  BY <1>1 DEF LevelSet
<1>3. /\ Levels[1] = "Trace" /\ Levels[2] = "Debug" /\ Levels[3] = "Fatal"
      /\ Levels[4] = "Error" /\ Levels[5] = "Warning" /\ Levels[6] = "Verbose"
      /\ Levels[7] = "Info"
  BY DEF Levels
<1>4. "Global" \notin LevelSet
  BY <1>2, <1>3
<1>5. /\ "Info" \in LevelSet /\ "Debug" \in LevelSet
      /\ "Error" \in LevelSet /\ "Fatal" \in LevelSet /\ "Verbose" \in LevelSet
      /\ "Trace" \in LevelSet /\ "Warning" \in LevelSet
  <2>1. 1..7 = {1, 2, 3, 4, 5, 6, 7}
    OBVIOUS
  <2> QED BY <1>2, <1>3, <2>1
<1> QED BY <1>1, <1>2, <1>4, <1>5

LEMMA IsSequence ==
  ASSUME NEW S, NEW n \in Nat, NEW f \in [1..n -> S]
  PROVE  f \in Seq(S) /\ Len(f) = n /\ DOMAIN f = 1..n
<1> QED OBVIOUS

LEMMA EachLevel ==
  ASSUME NEW V, NEW v \in V
  PROVE  /\ AllLevels(v) \in Seq(Entries(V)) /\ Len(AllLevels(v)) = 7
         /\ \A k \in 1..7 : AllLevels(v)[k].level = Levels[k] /\ AllLevels(v)[k].value = v
<1> DEFINE a == AllLevels(v)
<1>1. a = [i \in 1..7 |-> [level |-> Levels[i], value |-> v]]
  BY LevelsAre DEF AllLevels
<1> HIDE DEF a
<1>2. \A i \in 1..7 : [level |-> Levels[i], value |-> v] \in Entries(V)
  BY LevelsAre DEF Entries
<1>3. a \in Seq(Entries(V)) /\ Len(a) = 7
  <2>1. a \in [1..7 -> Entries(V)]
    BY <1>1, <1>2
  <2> QED BY <2>1, 7 \in Nat, IsSequence
<1> QED BY <1>1, <1>3 DEF a

(* What one configuration changes.                                         *)
OneIn(V, list, c, r) ==
  /\ r \in Seq(Entries(V)) /\ r # <<>> /\ DOMAIN list \subseteq DOMAIN r
  /\ \A i \in DOMAIN list : r[i].level = list[i].level
  /\ \A i \in DOMAIN r : \/ r[i] = c
                         \/ i \in DOMAIN list /\ r[i] = list[i] /\ list[i].level # c.level
  /\ list = <<>> => r = <<c>>
  /\ HasLevel(r, c.level)

LEMMA OneSet ==
  ASSUME NEW V, NEW list \in Seq(Entries(V)), NEW c \in Entries(V)
  PROVE  OneIn(V, list, c, SetOne(list, c))
<1> DEFINE r == SetOne(list, c)
<1>0. /\ Len(list) \in Nat /\ DOMAIN list = 1..Len(list)
      /\ \A i \in DOMAIN list : list[i] \in Entries(V)
  BY LenProperties, ElementOfSeq
<1>1. CASE HasLevel(list, c.level)
  <2>1. r = [i \in 1..Len(list) |-> IF list[i].level = c.level THEN c ELSE list[i]]
    BY <1>0, <1>1 DEF SetOne
  <2> HIDE DEF r
  <2>2. r \in [1..Len(list) -> Entries(V)]
    BY <1>0, <2>1
  <2>3. r \in Seq(Entries(V)) /\ DOMAIN r = DOMAIN list
    BY <1>0, <2>2, IsSequence, Zenon
  <2>4. r # <<>>
    BY <1>0, <1>1, <2>3 DEF HasLevel
  <2>5. ASSUME NEW i \in DOMAIN r
        PROVE  \/ r[i] = c
               \/ i \in DOMAIN list /\ r[i] = list[i] /\ list[i].level # c.level
    <3>1. r[i] = IF list[i].level = c.level THEN c ELSE list[i]
      BY <1>0, <2>1, <2>3
    <3> QED BY <2>3, <3>1
  <2>6. (\A i \in DOMAIN list : r[i].level = list[i].level) /\ HasLevel(r, c.level)
    <3>1. \A i \in DOMAIN list : r[i] = IF list[i].level = c.level THEN c ELSE list[i]
      BY <1>0, <2>1
    <3> QED BY <1>1, <2>3, <3>1 DEF HasLevel
  <2>7. list # <<>>
    BY <1>0, <1>1 DEF HasLevel
  <2>8. OneIn(V, list, c, r)
    BY <2>3, <2>4, <2>5, <2>6, <2>7, Zenon DEF OneIn
  <2> QED BY <2>8 DEF r
<1>2. CASE ~HasLevel(list, c.level)
  <2>1. r = Append(list, c)
    BY <1>2 DEF SetOne
  <2> HIDE DEF r
  <2>2. /\ r \in Seq(Entries(V)) /\ Len(r) = Len(list) + 1
        /\ \A i \in 1..Len(list) : r[i] = list[i]
        /\ r[Len(list) + 1] = c
    BY <2>1, AppendProperties
  <2>3. DOMAIN r = 1..Len(list) + 1
    BY <2>2, LenProperties
  <2>4. r # <<>> /\ DOMAIN list \subseteq DOMAIN r /\ Len(list) + 1 \in DOMAIN r
    BY <1>0, <2>2, <2>3
  <2>5. \A i \in DOMAIN r : i \in DOMAIN list \/ i = Len(list) + 1
    BY <1>0, <2>3
  <2>6. list = <<>> => r = <<c>>
    BY <2>1
  <2>7. ASSUME NEW i \in DOMAIN r
        PROVE  \/ r[i] = c
               \/ i \in DOMAIN list /\ r[i] = list[i] /\ list[i].level # c.level
    BY <1>0, <1>2, <2>2, <2>5 DEF HasLevel
  <2>8. (\A i \in DOMAIN list : r[i].level = list[i].level) /\ HasLevel(r, c.level)
    BY <1>0, <2>2, <2>4 DEF HasLevel
  <2>9. OneIn(V, list, c, r)
    BY <2>2, <2>4, <2>6, <2>7, <2>8, Zenon DEF OneIn
  <2> QED BY <2>9 DEF r
<1> QED BY <1>1, <1>2

(* The values may be more.                                                 *)
LEMMA StartsWhole ==
  ASSUME NEW V, NEW W, W \subseteq V
  PROVE  Starts(W) \subseteq Starts(V) /\ Filled(W) \subseteq Filled(V)
<1>1. Entries(W) \subseteq Entries(V)
  BY DEF Entries
<1>2. Seq(Entries(W)) \subseteq Seq(Entries(V))
  BY <1>1, SeqMonotonic, Zenon
<1> QED BY <1>2 DEF Starts, Filled

(* A list that has every level still has it afterwards.                    *)
LEMMA OneKeeps ==
  ASSUME NEW V, NEW list \in Filled(V), NEW c \in Entries(V)
  PROVE  SetOne(list, c) \in Filled(V)
<1> DEFINE r == SetOne(list, c)
<1>1. list \in Seq(Entries(V)) /\ list # <<>> /\ list[1].level = "Global"
  BY DEF Filled, Starts
<1>2. /\ r \in Seq(Entries(V)) /\ r # <<>>
      /\ DOMAIN list \subseteq DOMAIN r
      /\ \A i \in DOMAIN list : r[i].level = list[i].level
  <2>1. OneIn(V, list, c, SetOne(list, c))
    BY <1>1, OneSet
  <2> QED BY <2>1 DEF OneIn
<1> HIDE DEF r
<1>3. 1 \in DOMAIN list
  BY <1>1, LenProperties, EmptySeq
<1>4. r[1].level = "Global"
  BY <1>1, <1>2, <1>3
<1>5. \A l \in LevelSet : HasLevel(r, l)
  BY <1>2 DEF Filled, HasLevel
<1>6. r \in Starts(V)
  BY <1>2, <1>4 DEF Starts
<1> QED BY <1>2, <1>5, <1>6 DEF Filled, r

LEMMA EachKeeps ==
  ASSUME NEW V, NEW list \in Filled(V), NEW v \in V
  PROVE  SetEach(list, AllLevels(v)) \in Filled(V)
<1> DEFINE seq == AllLevels(v)
           I == [n \in 0..7 |-> Filled(V)]
<1>1. seq \in Seq(Entries(V)) /\ Len(seq) = 7
  BY EachLevel
<1> HIDE DEF seq
<1>2. list \in I[0]
  OBVIOUS
<1>3. \A n \in 1..Len(seq) : \A s \in I[n - 1] : SetOne(s, seq[n]) \in I[n]
  <2> SUFFICES ASSUME NEW n \in 1..Len(seq), NEW s \in I[n - 1]
               PROVE  SetOne(s, seq[n]) \in I[n]
    OBVIOUS
  <2>1. n \in 0..7 /\ n - 1 \in 0..7 /\ n \in 1..Len(seq)
    BY <1>1
  <2>2. seq[n] \in Entries(V)
    BY <1>1, ElementOfSeq, Zenon
  <2>3. s \in Filled(V) /\ I[n] = Filled(V)
    BY <2>1
  <2> QED BY <2>2, <2>3, OneKeeps, Zenon
<1> DEFINE end == FoldLeft(SetOne, list, seq)
<1> HIDE DEF I
<1>4. end \in I[Len(seq)]
  BY <1>1, <1>2, <1>3, OneFold, One!FoldInduction, Zenon
<1>5. SetEach(list, AllLevels(v)) = end
  BY DEF SetEach, seq
<1> HIDE DEF end
<1> QED BY <1>1, <1>4, <1>5 DEF I

LEMMA ValuesAre ==
  ASSUME NEW V, NEW W, NEW list \in Seq(Entries(V)), \A i \in DOMAIN list : list[i].value \in W
  PROVE  list \in Seq(Entries(W))
<1>1. /\ Len(list) \in Nat /\ DOMAIN list = 1..Len(list)
      /\ list \in [1..Len(list) -> Entries(V)]
  BY LenProperties
<1>2. \A i \in 1..Len(list) : list[i] \in Entries(W)
  BY <1>1 DEF Entries
<1>3. list \in [1..Len(list) -> Entries(W)]
  BY <1>1, <1>2
<1> QED BY <1>1, <1>3, IsSequence, Zenon

(* What a value of Level::Global leaves behind, whatever was there.        *)
LEMMA GlobalFills ==
  ASSUME NEW V, NEW list \in Starts(V), NEW v \in V
  PROVE  SetList(list, [level |-> "Global", value |-> v]) \in Filled({v})
<1> DEFINE c == [level |-> "Global", value |-> v]
           first == SetOne(list, c)
           seq == AllLevels(v)
           Done(s, n) == /\ s # <<>> /\ s[1].level = "Global"
                         /\ \A k \in 1..n : HasLevel(s, Levels[k])
                         /\ \A i \in DOMAIN s : \/ s[i].value = v
                                                \/ \E k \in n + 1..7 : s[i].level = Levels[k]
           I == [n \in 0..7 |-> {s \in Seq(Entries(V)) : Done(s, n)}]
<1>0. /\ list \in Seq(Entries(V)) /\ (list # <<>> => list[1].level = "Global")
      /\ c \in Entries(V) /\ c.level = "Global" /\ c.value = v
  BY DEF Starts, Entries
<1> HIDE DEF c
<1>1. /\ seq \in Seq(Entries(V)) /\ Len(seq) = 7
      /\ \A k \in 1..7 : seq[k].level = Levels[k] /\ seq[k].value = v
  BY EachLevel
<1> HIDE DEF seq
<1>2. first \in Seq(Entries(V)) /\ Done(first, 0)
  <2>1. OneIn(V, list, c, first)
    BY <1>0, OneSet
  <2> HIDE DEF first
  <2>2. first[1].level = "Global"
    <3>1. CASE list = <<>>
      BY <1>0, <2>1, <3>1 DEF OneIn
    <3>2. CASE list # <<>>
      <4>1. 1 \in DOMAIN list
        BY <1>0, <3>2, LenProperties, EmptySeq
      <4> QED BY <1>0, <2>1, <3>2, <4>1 DEF OneIn
    <3> QED BY <3>1, <3>2
  <2>3. ASSUME NEW i \in DOMAIN first
        PROVE  \/ first[i].value = v
               \/ \E k \in 0 + 1..7 : first[i].level = Levels[k]
    <3>1. CASE first[i] = c
      BY <1>0, <3>1
    <3>2. CASE i \in DOMAIN list /\ first[i] = list[i] /\ list[i].level # c.level
      <4>1. list[i] \in Entries(V)
        BY <1>0, <3>2, LenProperties, ElementOfSeq
      <4>2. list[i].level \in LevelSet
        BY <1>0, <3>2, <4>1 DEF Entries
      <4> QED BY <3>2, <4>2, LevelsAre
    <3> QED BY <2>1, <3>1, <3>2 DEF OneIn
  <2>4. \A k \in 1..0 : HasLevel(first, Levels[k])
    OBVIOUS
  <2> QED BY <2>1, <2>2, <2>3, <2>4 DEF OneIn
<1> HIDE DEF first
<1>3. \A n \in 1..Len(seq) : \A s \in I[n - 1] : SetOne(s, seq[n]) \in I[n]
  <2> SUFFICES ASSUME NEW n \in 1..7, NEW s \in I[n - 1]
               PROVE  SetOne(s, seq[n]) \in I[n]
    BY <1>1
  <2> DEFINE r == SetOne(s, seq[n])
             e == seq[n]
  <2>1. s \in Seq(Entries(V)) /\ Done(s, n - 1) /\ seq[n] \in Entries(V)
    <3>1. n - 1 \in 0..7 /\ n \in 1..Len(seq)
      BY <1>1
    <3>2. seq[n] \in Entries(V)
      BY <1>1, <3>1, ElementOfSeq, Zenon
    <3> HIDE DEF Done
    <3> QED BY <3>1, <3>2
  <2>2. OneIn(V, s, e, r)
    BY <2>1, OneSet
  <2>3. e.level = Levels[n] /\ e.value = v
    BY <1>1
  <2> HIDE DEF r, e
  <2>4. 1 \in DOMAIN s
    BY <2>1, LenProperties, EmptySeq
  <2>5. r[1].level = "Global" /\ r # <<>> /\ r \in Seq(Entries(V))
    BY <2>1, <2>2, <2>4 DEF OneIn
  <2>6. ASSUME NEW k \in 1..n
        PROVE  HasLevel(r, Levels[k])
    <3>1. CASE k = n
      BY <2>2, <2>3, <3>1 DEF OneIn
    <3>2. CASE k # n
      <4>1. HasLevel(s, Levels[k])
        BY <2>1, <3>2
      <4> QED BY <2>2, <4>1 DEF OneIn, HasLevel
    <3> QED BY <3>1, <3>2
  <2>7. ASSUME NEW i \in DOMAIN r
        PROVE  \/ r[i].value = v
               \/ \E k \in n + 1..7 : r[i].level = Levels[k]
    <3>1. CASE r[i] = e
      BY <2>3, <3>1
    <3>2. CASE i \in DOMAIN s /\ r[i] = s[i] /\ s[i].level # e.level
      <4>1. s[i].value = v \/ \E k \in (n - 1) + 1..7 : s[i].level = Levels[k]
        BY <2>1, <3>2
      <4>2. ASSUME NEW k \in (n - 1) + 1..7, s[i].level = Levels[k]
            PROVE  k \in n + 1..7
        BY <2>3, <3>2, <4>2
      <4> QED BY <3>2, <4>1, <4>2
    <3> QED BY <2>2, <3>1, <3>2 DEF OneIn
  <2>8. Done(r, n)
    BY <2>5, <2>6, <2>7, Zenon
  <2> HIDE DEF Done
  <2> QED BY <2>5, <2>8 DEF r, e
<1>4. first \in I[0]
  BY <1>2
<1> HIDE DEF I
<1> DEFINE end == FoldLeft(SetOne, first, seq)
<1>5. end \in I[Len(seq)]
  <2>1. seq \in Seq(Entries(V))
    BY <1>1
  <2> QED BY <2>1, <1>3, <1>4, OneFold, One!FoldInduction, Zenon
<1>6. SetList(list, c) = end
  BY <1>0 DEF SetList, SetEach, first, seq
<1> HIDE DEF end
<1>7. end \in Seq(Entries(V)) /\ Done(end, 7)
  BY <1>1, <1>5 DEF I
<1>8. \A i \in DOMAIN end : end[i].value \in {v}
  BY <1>7
<1>9. end \in Seq(Entries({v}))
  BY <1>7, <1>8, ValuesAre, Zenon
<1>10. \A l \in LevelSet : HasLevel(end, l)
  BY <1>7, LevelsAre
<1>11. end \in Starts({v})
  BY <1>7, <1>9 DEF Starts
<1> QED BY <1>6, <1>7, <1>10, <1>11 DEF Filled, c

LEMMA SetKeeps ==
  ASSUME NEW V, NEW list \in Filled(V), NEW c \in Entries(V)
  PROVE  SetList(list, c) \in Filled(V)
<1>1. SetOne(list, c) \in Filled(V) /\ c.value \in V
  BY OneKeeps DEF Entries
<1>2. CASE c.level = "Global"
  <2>1. SetList(list, c) = SetEach(SetOne(list, c), AllLevels(c.value))
    BY <1>2 DEF SetList
  <2> QED BY <1>1, <2>1, EachKeeps
<1>3. CASE c.level # "Global"
  BY <1>1, <1>3 DEF SetList
<1> QED BY <1>2, <1>3

(* A list that is folded over another, whatever was there.                 *)
LEMMA FoldFills ==
  ASSUME NEW V, NEW W, W \subseteq V, NEW list \in Starts(V), NEW seq \in Filled(W)
  PROVE  FoldLeft(SetList, list, seq) \in Filled(W)
<1> DEFINE end == FoldLeft(SetList, list, seq)
           I == [n \in 0..Len(seq) |-> IF n = 0 THEN Starts(V) ELSE Filled(W)]
<1>1. seq \in Seq(Entries(W)) /\ Len(seq) \in Nat \ {0} /\ seq[1].level = "Global"
  BY EmptySeq DEF Filled, Starts
<1>2. list \in I[0]
  BY <1>1
<1>3. \A n \in 1..Len(seq) : \A s \in I[n - 1] : SetList(s, seq[n]) \in I[n]
  <2> SUFFICES ASSUME NEW n \in 1..Len(seq), NEW s \in I[n - 1]
               PROVE  SetList(s, seq[n]) \in Filled(W)
    BY <1>1
  <2>1. seq[n] \in Entries(W)
    BY <1>1, ElementOfSeq
  <2>2. CASE n = 1
    <3> DEFINE v == seq[1].value
    <3>1. s \in Starts(V)
      BY <1>1, <2>2
    <3>2. v \in W /\ v \in V /\ seq[n] = [level |-> "Global", value |-> v]
      BY <1>1, <2>1, <2>2 DEF Entries
    <3> HIDE DEF v
    <3>3. SetList(s, seq[n]) \in Filled({v})
      BY <3>1, <3>2, GlobalFills
    <3> QED BY <3>2, <3>3, StartsWhole
  <2>3. CASE n # 1
    <3>1. s \in Filled(W)
      BY <1>1, <2>3
    <3> QED BY <2>1, <3>1, SetKeeps
  <2> QED BY <2>2, <2>3
<1> HIDE DEF I
<1>4. end \in I[Len(seq)]
  BY <1>1, <1>2, <1>3, EachFold, Each!FoldInduction, Zenon
<1> HIDE DEF end
<1>5. end \in Filled(W)
  BY <1>1, <1>4 DEF I
<1> QED BY <1>5 DEF end

(* One that is folded over a list with every level.                        *)
LEMMA FoldKeeps ==
  ASSUME NEW V, NEW list \in Filled(V), NEW seq \in Seq(Entries(V))
  PROVE  FoldLeft(SetList, list, seq) \in Filled(V)
<1> DEFINE end == FoldLeft(SetList, list, seq)
           I == [n \in 0..Len(seq) |-> Filled(V)]
<1>1. Len(seq) \in Nat
  BY LenProperties
<1>2. list \in I[0]
  BY <1>1
<1>3. \A n \in 1..Len(seq) : \A s \in I[n - 1] : SetList(s, seq[n]) \in I[n]
  <2> SUFFICES ASSUME NEW n \in 1..Len(seq), NEW s \in I[n - 1]
               PROVE  SetList(s, seq[n]) \in Filled(V)
    BY <1>1
  <2>1. s \in Filled(V) /\ seq[n] \in Entries(V)
    BY <1>1, ElementOfSeq
  <2> QED BY <2>1, SetKeeps
<1> HIDE DEF I
<1>4. end \in I[Len(seq)]
  BY <1>1, <1>2, <1>3, EachFold, Each!FoldInduction, Zenon
<1> HIDE DEF end
<1>5. end \in Filled(V)
  BY <1>1, <1>4 DEF I
<1> QED BY <1>5 DEF end

-----------------------------------------------------------------------------
(* Configurations: what a type's entries may be, e being that of Enabled.  *)
Texts == {"default", "debug", "verbose", "trace", "performance", "connection"}

Values(t, e) ==
  IF t = "Enabled" THEN {e} ELSE IF t = "Format" THEN Texts ELSE {Defaults[t]}

IsConf(conf, e) ==
  /\ DOMAIN conf = ConfigurationTypes
  /\ \A t \in ConfigurationTypes : conf[t] \in Filled(Values(t, e))

(* What main() and the library make of a configuration is one again.       *)
LEMMA EmptyStarts ==
  ASSUME NEW V
  PROVE  <<>> \in Starts(V)
<1> QED BY EmptySeq DEF Starts

LEMMA FormatsAre == DefaultFormats \in Seq(Entries(Texts))
<1>1. \A l \in LevelSet, v \in Texts : [level |-> l, value |-> v] \in Entries(Texts)
  BY DEF Entries
<1>2. {"default", "debug", "verbose", "trace"} \subseteq Texts
  BY DEF Texts
<1>3. /\ [level |-> "Debug", value |-> "debug"] \in Entries(Texts)
      /\ [level |-> "Error", value |-> "default"] \in Entries(Texts)
      /\ [level |-> "Fatal", value |-> "default"] \in Entries(Texts)
      /\ [level |-> "Verbose", value |-> "verbose"] \in Entries(Texts)
      /\ [level |-> "Trace", value |-> "trace"] \in Entries(Texts)
  BY <1>1, <1>2, LevelsAre
<1> QED BY <1>3 DEF DefaultFormats

LEMMA DefaultIs == IsConf(SetToDefault(Empty), TRUE)
<1> DEFINE d == SetToDefault(Empty)
           List(t) == SetList(<<>>, [level |-> "Global", value |-> Defaults[t]])
<1>1. DOMAIN d = ConfigurationTypes
  BY DEF SetToDefault
<1>2. ASSUME NEW t \in ConfigurationTypes
      PROVE  List(t) \in Filled({Defaults[t]})
  BY EmptyStarts, GlobalFills
<1>3. ASSUME NEW t \in ConfigurationTypes
      PROVE  d[t] = IF t = "Format" THEN FoldLeft(SetList, List(t), DefaultFormats) ELSE List(t)
  BY DEF SetToDefault, Empty
<1> HIDE DEF d, List
<1>4. ASSUME NEW t \in ConfigurationTypes
      PROVE  d[t] \in Filled(Values(t, TRUE))
  <2>1. CASE t = "Format"
    <3> DEFINE s == List(t)
    <3>1. Defaults[t] \in Texts
      BY <2>1 DEF Defaults, Texts
    <3>2. s \in Filled(Texts)
      BY <1>2, <3>1, StartsWhole
    <3> HIDE DEF s
    <3>3. FoldLeft(SetList, s, DefaultFormats) \in Filled(Texts)
      BY <3>2, FormatsAre, FoldKeeps
    <3>4. d[t] = FoldLeft(SetList, s, DefaultFormats)
      BY <1>3, <2>1 DEF s
    <3>5. Values(t, TRUE) = Texts
      BY <2>1 DEF Values
    <3> QED BY <3>3, <3>4, <3>5, Zenon
  <2>2. CASE t # "Format"
    <3>1. d[t] = List(t)
      BY <1>3, <2>2
    <3>2. Defaults["Enabled"] = TRUE
      BY DEF Defaults
    <3>3. Values(t, TRUE) = {Defaults[t]}
      BY <2>2, <3>2 DEF Values
    <3> QED BY <1>2, <3>1, <3>3
  <2> QED BY <2>1, <2>2
<1> QED BY <1>1, <1>4 DEF IsConf, d

LEMMA FromBaseIs ==
  ASSUME NEW conf, NEW base, NEW e \in BOOLEAN, NEW f \in BOOLEAN,
         conf = Empty \/ IsConf(conf, f), IsConf(base, e)
  PROVE  IsConf(SetFromBase(conf, base), e)
<1> DEFINE d == SetFromBase(conf, base)
<1>1. DOMAIN d = ConfigurationTypes
  BY DEF SetFromBase
<1>2. ASSUME NEW t \in ConfigurationTypes
      PROVE  d[t] \in Filled(Values(t, e))
  <2> DEFINE list == conf[t]
             seq == base[t]
             V == Values(t, e) \cup Values(t, f)
  <2>1. d[t] = FoldLeft(SetList, list, seq)
    BY DEF SetFromBase
  <2>2. seq \in Filled(Values(t, e))
    BY DEF IsConf
  <2>3. Values(t, e) \subseteq V /\ Values(t, f) \subseteq V
    OBVIOUS
  <2> HIDE DEF V
  <2>4. list \in Starts(V)
    <3>1. CASE conf = Empty
      <4>1. list = <<>>
        BY <3>1 DEF Empty
      <4> QED BY <4>1, EmptyStarts
    <3>2. CASE IsConf(conf, f)
      <4>1. list \in Starts(Values(t, f))
        BY <3>2 DEF IsConf, Filled
      <4> HIDE DEF list
      <4> QED BY <2>3, <4>1, StartsWhole
    <3> QED BY <3>1, <3>2
  <2> HIDE DEF list, seq
  <2>5. FoldLeft(SetList, list, seq) \in Filled(Values(t, e))
    BY <2>2, <2>3, <2>4, FoldFills
  <2> QED BY <2>1, <2>5, Zenon
<1> HIDE DEF d
<1> QED BY <1>1, <1>2 DEF IsConf, d

LEMMA FormatSet ==
  ASSUME NEW conf, IsConf(conf, TRUE)
  PROVE  IsConf(SetLevel(conf, "Info", "Format", "connection"), TRUE)
<1> DEFINE d == SetLevel(conf, "Info", "Format", "connection")
           c == [level |-> "Info", value |-> "connection"]
<1>1. conf["Format"] \in Filled(Texts) /\ "Format" \in ConfigurationTypes
  BY DEF IsConf, Values, ConfigurationTypes
<1>2. c \in Entries(Texts)
  BY LevelsAre DEF Entries, Texts
<1> HIDE DEF c
<1>3. SetList(conf["Format"], c) \in Filled(Texts)
  BY <1>1, <1>2, SetKeeps
<1>4. d = [conf EXCEPT !["Format"] = SetList(conf["Format"], c)]
  BY DEF SetLevel, c
<1> HIDE DEF d
<1>5. DOMAIN d = ConfigurationTypes
  BY <1>4 DEF IsConf
<1>6. ASSUME NEW t \in ConfigurationTypes
      PROVE  d[t] \in Filled(Values(t, TRUE))
  <2>1. CASE t = "Format"
    BY <1>1, <1>3, <1>4, <2>1 DEF IsConf, Values
  <2>2. CASE t # "Format"
    BY <1>4, <2>2 DEF IsConf
  <2> QED BY <2>1, <2>2
<1> QED BY <1>5, <1>6 DEF IsConf, d

LEMMA EnabledSet ==
  ASSUME NEW conf, NEW e \in BOOLEAN, IsConf(conf, TRUE)
  PROVE  IsConf(SetLevel(conf, "Global", "Enabled", e), e)
<1> DEFINE d == SetLevel(conf, "Global", "Enabled", e)
           c == [level |-> "Global", value |-> e]
<1>1. conf["Enabled"] \in Filled({TRUE}) /\ "Enabled" \in ConfigurationTypes
  BY DEF IsConf, Values, ConfigurationTypes, FlagTypes
<1>2. conf["Enabled"] \in Starts(BOOLEAN)
  <2>1. {TRUE} \subseteq BOOLEAN
    OBVIOUS
  <2>2. Filled({TRUE}) \subseteq Filled(BOOLEAN)
    BY <2>1, StartsWhole
  <2> QED BY <1>1, <2>2 DEF Filled
<1>3. SetList(conf["Enabled"], c) \in Filled({e})
  BY <1>2, GlobalFills
<1>4. d = [conf EXCEPT !["Enabled"] = SetList(conf["Enabled"], c)]
  BY DEF SetLevel
<1> HIDE DEF c, d
<1>5. DOMAIN d = ConfigurationTypes
  BY <1>4 DEF IsConf
<1>6. ASSUME NEW t \in ConfigurationTypes
      PROVE  d[t] \in Filled(Values(t, e))
  <2>1. CASE t = "Enabled"
    BY <1>1, <1>3, <1>4, <2>1 DEF IsConf, Values
  <2>2. CASE t # "Enabled"
    BY <1>4, <2>2 DEF IsConf, Values
  <2> QED BY <2>1, <2>2
<1> QED BY <1>5, <1>6 DEF IsConf, d

LEMMA PerformanceSet ==
  ASSUME NEW conf, IsConf(conf, TRUE)
  PROVE  IsConf(SetGlobally(conf, "Format", "performance"), TRUE)
<1> DEFINE d == SetGlobally(conf, "Format", "performance")
           s == SetEach(conf["Format"], AllLevels("performance"))
<1>1. conf["Format"] \in Filled(Texts) /\ "Format" \in ConfigurationTypes
  BY DEF IsConf, Values, ConfigurationTypes
<1>2. s \in Filled(Texts)
  <2>1. "performance" \in Texts
    BY DEF Texts
  <2> QED BY <1>1, <2>1, EachKeeps
<1>3. d = [conf EXCEPT !["Format"] = s]
  BY DEF SetGlobally
<1> HIDE DEF d, s
<1>4. DOMAIN d = ConfigurationTypes
  BY <1>3 DEF IsConf
<1>5. ASSUME NEW t \in ConfigurationTypes
      PROVE  d[t] \in Filled(Values(t, TRUE))
  <2>1. CASE t = "Format"
    BY <1>1, <1>2, <1>3, <2>1 DEF IsConf, Values
  <2>2. CASE t # "Format"
    BY <1>3, <2>2 DEF IsConf
  <2> QED BY <2>1, <2>2
<1> QED BY <1>4, <1>5 DEF IsConf, d

-----------------------------------------------------------------------------
(* The typed settings: the map of one type grows by what is set.           *)
LEMMA FirstValue ==
  ASSUME NEW c
  PROVE  SetValue(<<>>, c) = [m \in {"Global"} |-> c.value]
<1>1. DOMAIN <<>> = {}
  OBVIOUS
<1> QED BY <1>1 DEF SetValue

LEMMA SameKept ==
  ASSUME NEW map, NEW c, "Global" \in DOMAIN map, map["Global"] = c.value
  PROVE  SetValue(map, c) = map
<1>1. SameValue(c.type, map["Global"], c.value)
  BY DEF SameValue
<1>2. DOMAIN map # {}
  OBVIOUS
<1> QED BY <1>1, <1>2 DEF SetValue

Extended(map, c) ==
  [m \in DOMAIN map \cup {c.level} |->
     IF m # c.level THEN map[m]
     ELSE IF m \in DOMAIN map THEN Assigned(c.type, map[m], c.value) ELSE c.value]

LEMMA OtherAdded ==
  ASSUME NEW map, NEW c, "Global" \in DOMAIN map, map["Global"] # c.value
  PROVE  SetValue(map, c) = Extended(map, c)
<1>1. ~SameValue(c.type, map["Global"], c.value)
  BY DEF SameValue
<1>2. DOMAIN map # {}
  OBVIOUS
<1> QED BY <1>1, <1>2 DEF SetValue, Extended

TypedEntry(t, e) ==
  [type |-> t, level |-> TypedLevel(t, e.level), value |-> TypedValue(t, e.level, e.value)]

LEMMA TypedEntries ==
  ASSUME NEW V, NEW t, NEW list \in Seq(Entries(V))
  PROVE  /\ SetTyped(t, list) =
              FoldLeft(SetValue, <<>>, [i \in 1..Len(list) |-> TypedEntry(t, list[i])])
         /\ \A E : (\A e \in Entries(V) : TypedEntry(t, e) \in E) =>
              [i \in 1..Len(list) |-> TypedEntry(t, list[i])] \in Seq(E)
<1>1. Len(list) \in Nat /\ DOMAIN list = 1..Len(list)
  BY LenProperties
<1>2. SetTyped(t, list) =
        FoldLeft(SetValue, <<>>, [i \in 1..Len(list) |-> TypedEntry(t, list[i])])
  BY <1>1 DEF SetTyped, TypedEntry
<1>3. ASSUME NEW E, \A e \in Entries(V) : TypedEntry(t, e) \in E
      PROVE  [i \in 1..Len(list) |-> TypedEntry(t, list[i])] \in Seq(E)
  <2>1. \A i \in 1..Len(list) : TypedEntry(t, list[i]) \in E
    BY <1>3, ElementOfSeq
  <2>2. [i \in 1..Len(list) |-> TypedEntry(t, list[i])] \in [1..Len(list) -> E]
    BY <2>1
  <2> QED BY <1>1, <2>2, IsSequence, Zenon
<1> QED BY <1>2, <1>3

Single(v) == [m \in {"Global"} |-> v]

(* A type that has one value is looked up under Level::Global.             *)
LEMMA OneValue ==
  ASSUME NEW v, NEW t, t # "Format", NEW list \in Filled({v})
  PROVE  SetTyped(t, list) = Single(v)
<1> DEFINE seq == [i \in 1..Len(list) |-> TypedEntry(t, list[i])]
           map == [m \in {"Global"} |-> v]
           E == {e \in {TypedEntry(t, x) : x \in Entries({v})} : e.value = v}
           I == [n \in 0..Len(list) |-> IF n = 0 THEN {<<>>} ELSE {map}]
           end == FoldLeft(SetValue, <<>>, seq)
<1>1. list \in Seq(Entries({v})) /\ Len(list) \in Nat \ {0}
  BY EmptySeq DEF Filled, Starts
<1>2. \A x \in Entries({v}) : TypedEntry(t, x) \in E
  BY DEF TypedEntry, TypedValue, Entries
<1> HIDE DEF E
<1>3. seq \in Seq(E) /\ SetTyped(t, list) = end
  BY <1>1, <1>2, TypedEntries
<1>4. Len(seq) = Len(list)
  BY <1>1
<1> HIDE DEF seq
<1>5. \A n \in 1..Len(seq) : \A s \in I[n - 1] : SetValue(s, seq[n]) \in I[n]
  <2> SUFFICES ASSUME NEW n \in 1..Len(seq), NEW s \in I[n - 1]
               PROVE  SetValue(s, seq[n]) = map
    BY <1>1, <1>4
  <2>1. seq[n].value = v
    <3>1. seq[n] \in E
      BY <1>3, ElementOfSeq
    <3> QED BY <3>1 DEF E
  <2>2. CASE n = 1
    <3>1. s = <<>>
      BY <1>1, <2>2
    <3> QED BY <2>1, <3>1, FirstValue
  <2>3. CASE n # 1
    <3>1. s = map
      BY <1>1, <1>4, <2>3
    <3>2. "Global" \in DOMAIN map /\ map["Global"] = v
      OBVIOUS
    <3> HIDE DEF map
    <3> QED BY <2>1, <3>1, <3>2, SameKept
  <2> QED BY <2>2, <2>3
<1>6. <<>> \in I[0]
  BY <1>1
<1> HIDE DEF I
<1>7. end \in I[Len(seq)]
  BY <1>3, <1>5, <1>6, ValueFold, Value!FoldInduction, Zenon
<1> HIDE DEF end
<1>8. end = map
  BY <1>1, <1>4, <1>7 DEF I
<1> QED BY <1>3, <1>8 DEF Single

(* Every level has a format that shows it: its own is never taken to be    *)
(* that of Level::Global.                                                  *)
LEMMA FormatsShown ==
  ASSUME NEW V, NEW list \in Filled(V)
  PROVE  \A l \in LevelSet : /\ l \in DOMAIN SetTyped("Format", list)
                             /\ SetTyped("Format", list)[l].shown = l
<1> DEFINE G == LevelSet \cup {"Global"}
           F == [level : G, user : V, shown : LevelSet \cup {"%level"}]
           Shows(f, l) == f \in F /\ f.level = l /\ (l \in LevelSet => f.shown = l)
           E == {e \in [type : {"Format"}, level : G, value : F] : Shows(e.value, e.level)}
           seq == [i \in 1..Len(list) |-> TypedEntry("Format", list[i])]
           Done(map, n) == /\ "Global" \in DOMAIN map
                           /\ \A l \in DOMAIN map : Shows(map[l], l)
                           /\ \A k \in 1..n : seq[k].level \in DOMAIN map
           M == UNION {[D -> F] : D \in SUBSET G}
           I == [n \in 0..Len(list) |->
                   IF n = 0 THEN {<<>>} ELSE {map \in M : Done(map, n)}]
           end == FoldLeft(SetValue, <<>>, seq)
<1>1. /\ list \in Seq(Entries(V)) /\ Len(list) \in Nat \ {0} /\ list[1].level = "Global"
      /\ \A l \in LevelSet : \E i \in DOMAIN list : list[i].level = l
  BY EmptySeq DEF Filled, Starts, HasLevel
<1>2. \A x \in Entries(V) : TypedEntry("Format", x) \in E
  BY DEF TypedEntry, TypedValue, TypedLevel, LogFormat, Entries
<1>3. seq \in Seq(E) /\ SetTyped("Format", list) = end
  <2> HIDE DEF E
  <2> QED BY <1>1, <1>2, TypedEntries
<1>4. /\ Len(seq) = Len(list)
      /\ \A i \in 1..Len(list) : seq[i].level = list[i].level
  BY <1>1 DEF TypedEntry, TypedLevel
<1> HIDE DEF seq
<1>5. ASSUME NEW map, NEW c \in E, "Global" \in DOMAIN map, \A l \in DOMAIN map : Shows(map[l], l),
             DOMAIN map \subseteq G
      PROVE  /\ "Global" \in DOMAIN SetValue(map, c)
             /\ \A l \in DOMAIN SetValue(map, c) : Shows(SetValue(map, c)[l], l)
             /\ DOMAIN SetValue(map, c) = DOMAIN map \cup {c.level}
  <2>1. c.type = "Format" /\ Shows(c.value, c.level)
    OBVIOUS
  <2>2. CASE map["Global"] = c.value
    <3>1. SetValue(map, c) = map
      BY <1>5, <2>2, SameKept
    <3>2. c.level = "Global"
      BY <1>5, <2>1, <2>2
    <3>3. DOMAIN map = DOMAIN map \cup {c.level}
      BY <1>5, <3>2
    <3> HIDE DEF Shows, E, F, G
    <3> QED BY <1>5, <3>1, <3>3
  <2>3. CASE map["Global"] # c.value
    <3> DEFINE r == SetValue(map, c)
    <3>1. r = [m \in DOMAIN map \cup {c.level} |->
                 IF m # c.level THEN map[m]
                 ELSE IF m \in DOMAIN map THEN Assigned(c.type, map[m], c.value)
                 ELSE c.value]
      <4> HIDE DEF Shows, E, F, G
      <4>1. r = Extended(map, c)
        BY <1>5, <2>3, OtherAdded
      <4> QED BY <4>1 DEF Extended
    <3> HIDE DEF r
    <3>2. ASSUME NEW l \in DOMAIN r
          PROVE  Shows(r[l], l)
      <4>1. CASE l # c.level
        <5>1. r[l] = map[l] /\ l \in DOMAIN map
          BY <3>1, <4>1
        <5> HIDE DEF Shows, E, F, G
        <5> QED BY <1>5, <5>1
      <4>2. CASE l = c.level /\ l \notin DOMAIN map
        <5>1. r[l] = c.value
          BY <3>1, <4>2
        <5> QED BY <2>1, <4>2, <5>1
      <4>3. CASE l = c.level /\ l \in DOMAIN map
        <5>1. r[l] = [c.value EXCEPT !.shown = map[l].shown]
          BY <2>1, <3>1, <4>3 DEF Assigned
        <5>2. Shows(map[l], l)
          BY <1>5, <4>3
        <5> QED BY <2>1, <4>3, <5>1, <5>2
      <4> QED BY <4>1, <4>2, <4>3
    <3>3. DOMAIN r = DOMAIN map \cup {c.level}
      BY <3>1
    <3> QED BY <1>5, <3>2, <3>3 DEF r
  <2> QED BY <2>2, <2>3
<1>6. \A n \in 1..Len(seq) : \A s \in I[n - 1] : SetValue(s, seq[n]) \in I[n]
  <2> SUFFICES ASSUME NEW n \in 1..Len(seq), NEW s \in I[n - 1]
               PROVE  SetValue(s, seq[n]) \in {map \in M : Done(map, n)}
    <3> HIDE DEF M, Done
    <3> QED BY <1>1, <1>4
  <2> DEFINE c == seq[n]
             r == SetValue(s, c)
  <2>1. c \in E /\ Shows(c.value, c.level) /\ c.level \in G
    <3>1. c \in E
      BY <1>3, ElementOfSeq, Zenon
    <3> HIDE DEF c
    <3> QED BY <3>1
  <2>2. /\ "Global" \in DOMAIN r /\ \A l \in DOMAIN r : Shows(r[l], l)
        /\ DOMAIN r \subseteq G /\ r = [l \in DOMAIN r |-> r[l]]
        /\ \A k \in 1..n : seq[k].level \in DOMAIN r
    <3>1. CASE n = 1
      <4>1. s = <<>> /\ c.level = "Global"
        BY <1>1, <1>4, <3>1
      <4>2. r = [m \in {"Global"} |-> c.value]
        BY <4>1, FirstValue
      <4> HIDE DEF r
      <4>3. \A k \in 1..n : seq[k].level = "Global"
        BY <3>1, <4>1
      <4> HIDE DEF c, E
      <4> QED BY <2>1, <4>1, <4>2, <4>3
    <3>2. CASE n # 1
      <4>1. n - 1 \in 0..Len(list) /\ n - 1 # 0
        BY <1>1, <1>4, <3>2
      <4>2. s \in M /\ Done(s, n - 1)
        <5> HIDE DEF M, Done
        <5> QED BY <4>1
      <4>3. /\ DOMAIN s \subseteq G /\ s = [l \in DOMAIN s |-> s[l]] /\ "Global" \in DOMAIN s
            /\ \A l \in DOMAIN s : Shows(s[l], l)
        <5>1. PICK D \in SUBSET G : s \in [D -> F]
          BY <4>2
        <5>2. DOMAIN s \subseteq G /\ s = [l \in DOMAIN s |-> s[l]]
          <6> HIDE DEF F, G
          <6> QED BY <5>1
        <5> QED BY <4>2, <5>2
      <4> HIDE DEF E, c
      <4>4. /\ "Global" \in DOMAIN r /\ \A l \in DOMAIN r : Shows(r[l], l)
            /\ DOMAIN r = DOMAIN s \cup {c.level}
        <5> HIDE DEF Shows
        <5> QED BY <1>5, <2>1, <4>3
      <4>5. r = [l \in DOMAIN r |-> r[l]]
        <5> HIDE DEF Shows, F, G
        <5>1. CASE s["Global"] = c.value
          BY <4>3, <5>1, SameKept
        <5>2. CASE s["Global"] # c.value
          <6>1. r = Extended(s, c)
            BY <4>3, <5>2, OtherAdded
          <6> HIDE DEF r
          <6> QED BY <6>1 DEF Extended
        <5> QED BY <5>1, <5>2
      <4>6. ASSUME NEW k \in 1..n
            PROVE  seq[k].level \in DOMAIN r
        <5>1. CASE k = n
          BY <4>4, <5>1 DEF c
        <5>2. CASE k # n
          <6>1. k \in 1..n - 1
            BY <1>1, <1>4, <5>2
          <6> QED BY <4>2, <4>4, <6>1
        <5> QED BY <5>1, <5>2
      <4> HIDE DEF r, Shows
      <4> QED BY <2>1, <4>3, <4>4, <4>5, <4>6
    <3> QED BY <3>1, <3>2
  <2> HIDE DEF r
  <2>3. r \in [DOMAIN r -> F]
    <3>1. \A l \in DOMAIN r : r[l] \in F
      BY <2>2
    <3> HIDE DEF F
    <3> QED BY <2>2, <3>1
  <2>4. r \in M
    <3> HIDE DEF F, G
    <3> QED BY <2>2, <2>3
  <2>5. Done(r, n)
    BY <2>2
  <2> QED BY <2>4, <2>5 DEF r
<1>7. <<>> \in I[0]
  BY <1>1
<1> HIDE DEF I
<1>8. end \in I[Len(seq)]
  <2> HIDE DEF E
  <2> QED BY <1>3, <1>6, <1>7, ValueFold, Value!FoldInduction, Zenon
<1> HIDE DEF end
<1>9. Done(end, Len(list))
  <2>1. Len(list) \in 0..Len(list) /\ Len(list) # 0
    BY <1>1
  <2> HIDE DEF Done, M
  <2> QED BY <1>4, <1>8, <2>1 DEF I
<1>10. ASSUME NEW l \in LevelSet
       PROVE  l \in DOMAIN end /\ end[l].shown = l
  <2>1. PICK i \in DOMAIN list : list[i].level = l
    BY <1>1
  <2>2. i \in 1..Len(list) /\ seq[i].level = l
    BY <1>1, <1>4, <2>1, LenProperties
  <2> QED BY <1>9, <2>2
<1> QED BY <1>3, <1>10

-----------------------------------------------------------------------------
(* The file's stream is opened once, and every logger is given it.         *)
Opened(can) ==
  IF can THEN [handles |-> <<[buffer |-> <<>>, bad |-> FALSE]>>, shared |-> <<1>>]
  ELSE [handles |-> <<>>, shared |-> <<0>>]

Handle(can) == IF can THEN 1 ELSE 0

LEMMA OpenedOnce ==
  ASSUME NEW can \in BOOLEAN, NEW strs \in {NoStreams, Opened(can)}
  PROVE  OpenStream(strs, can) = Opened(can) /\ Opened(can).shared = <<Handle(can)>>
<1>1. Opened(can).shared = <<Handle(can)>>
  BY DEF Opened, Handle
<1>2. CASE strs = Opened(can)
  <2>1. <<Handle(can)>> # <<>>
    OBVIOUS
  <2> QED BY <1>1, <1>2, <2>1 DEF OpenStream
<1>3. CASE strs = NoStreams
  <2>1. OpenStream(strs, can) = NewFileStream(NoStreams, can)
    BY <1>3 DEF OpenStream, NoStreams
  <2> DEFINE x == [buffer |-> <<>>, bad |-> FALSE]
  <2>2. NoStreams.handles = <<>> /\ NoStreams = [handles |-> <<>>, shared |-> <<>>]
    BY DEF NoStreams
  <2>3. CASE can = TRUE
    <3>1. NewFileStream(NoStreams, can) =
            [handles |-> Append(NoStreams.handles, x), shared |-> <<Len(NoStreams.handles) + 1>>]
      BY <2>3 DEF NewFileStream
    <3>2. Opened(can) = [handles |-> <<x>>, shared |-> <<1>>]
      BY <2>3 DEF Opened
    <3> HIDE DEF x
    <3>3. Append(<<>>, x) = <<x>> /\ Len(<<>>) + 1 = 1
      OBVIOUS
    <3>4. NewFileStream(NoStreams, can) = Opened(can)
      BY <2>2, <3>1, <3>2, <3>3
    <3> QED BY <1>1, <2>1, <3>4
  <2>4. CASE can = FALSE
    <3>1. NewFileStream(NoStreams, can) = Opened(can)
      BY <2>2, <2>4 DEF NewFileStream, Opened
    <3> QED BY <1>1, <2>1, <3>1
  <2> QED BY <2>3, <2>4
<1> QED BY <1>2, <1>3

(* What the file's entries leave of the settings typed.                    *)
After(b, typed, can) ==
  /\ b.streams = Opened(can)
  /\ DOMAIN b.typed = DOMAIN typed
  /\ "Global" \in DOMAIN b.typed["FileStream"]
  /\ \A m \in DOMAIN b.typed["FileStream"] : b.typed["FileStream"][m] = Handle(can)
  /\ \A t \in DOMAIN typed \ {"Filename", "FileStream"} :
       can \/ t # "ToFile" => b.typed[t] = typed[t]

(* The first entry opens the stream, the later ones share it.              *)
LEMMA InsertIs ==
  ASSUME NEW can \in BOOLEAN, NEW typed, NEW b, NEW e,
         {"Filename", "FileStream", "ToFile"} \subseteq DOMAIN typed,
         \/ /\ b.typed = typed /\ typed["FileStream"] = <<>>
            /\ b.streams \in {NoStreams, Opened(can)}
         \/ After(b, typed, can)
  PROVE  After(InsertFile(b, e, can), typed, can)
<1> DEFINE l  == IF DOMAIN b.typed["FileStream"] = {} THEN "Global" ELSE e.level
           s  == OpenStream(b.streams, can)
           f  == Inserted(b.typed["FileStream"], l, Handle(can))
           n  == Inserted(b.typed["Filename"], l, e.value)
           ty == [b.typed EXCEPT !["Filename"] = n, !["FileStream"] = f]
           r  == InsertFile(b, e, can)
<1>1. s = Opened(can) /\ s.shared[1] = Handle(can)
  BY OpenedOnce DEF After
<1>2. /\ DOMAIN b.typed = DOMAIN typed
      /\ \A t \in DOMAIN typed \ {"Filename", "FileStream"} :
           can \/ t # "ToFile" => b.typed[t] = typed[t]
      /\ \A m \in DOMAIN b.typed["FileStream"] : b.typed["FileStream"][m] = Handle(can)
      /\ \/ DOMAIN b.typed["FileStream"] = {}
         \/ "Global" \in DOMAIN b.typed["FileStream"]
  BY DEF After
<1>3. "Global" \in DOMAIN f /\ \A m \in DOMAIN f : f[m] = Handle(can)
  BY <1>2 DEF Inserted
<1>4. r.streams = s
  BY DEF InsertFile
<1>5. r.typed = IF s.shared # <<0>> THEN ty
                ELSE [ty EXCEPT !["ToFile"] =
                        SetValue(ty["ToFile"], [type |-> "ToFile", level |-> l, value |-> FALSE])]
  BY <1>1 DEF InsertFile
<1>6. can => s.shared # <<0>>
  BY <1>1 DEF Opened
<1> HIDE DEF f, n, l, s, r
<1>7. /\ DOMAIN ty = DOMAIN typed /\ ty["FileStream"] = f
      /\ \A t \in DOMAIN typed \ {"Filename", "FileStream"} : ty[t] = b.typed[t]
  BY <1>2
<1> HIDE DEF ty
<1>8. /\ DOMAIN r.typed = DOMAIN typed /\ r.typed["FileStream"] = f
      /\ \A t \in DOMAIN typed \ {"Filename", "FileStream"} :
           can \/ t # "ToFile" => r.typed[t] = ty[t]
  BY <1>5, <1>6, <1>7
<1> QED BY <1>1, <1>2, <1>3, <1>4, <1>7, <1>8 DEF After, r

LEMMA OpeningFold ==
  ASSUME NEW base, NEW seq
  PROVE  FoldLeft(LAMBDA b, e : InsertFile(b, e, TRUE), base, seq) =
           Opening!FoldLeft(LAMBDA b, e : InsertFile(b, e, TRUE), base, seq)
<1> QED BY DEF FoldLeft, Opening!FoldLeft, MapThenFoldSet, Opening!MapThenFoldSet, Max,
         Opening!Max

LEMMA FailingFold ==
  ASSUME NEW base, NEW seq
  PROVE  FoldLeft(LAMBDA b, e : InsertFile(b, e, FALSE), base, seq) =
           Failing!FoldLeft(LAMBDA b, e : InsertFile(b, e, FALSE), base, seq)
<1> QED BY DEF FoldLeft, Failing!FoldLeft, MapThenFoldSet, Failing!MapThenFoldSet, Max,
         Failing!Max

(* The settings before the file's entries are gone through.                *)
Built(conf) ==
  [t \in ConfigurationTypes \cup {"FileStream"} |->
     IF t \in {"Filename", "FileStream"} THEN <<>> ELSE SetTyped(t, conf[t])]

LEMMA BuildSteps ==
  ASSUME NEW can \in BOOLEAN, NEW E, NEW conf, conf["Filename"] \in Seq(E), NEW strs
  PROVE  \E F : /\ F[0] = [typed |-> Built(conf), streams |-> strs]
                /\ \A k \in 1..Len(conf["Filename"]) :
                     F[k] = InsertFile(F[k - 1], conf["Filename"][k], can)
                /\ Build(conf, strs, can) = F[Len(conf["Filename"])]
<1> DEFINE base == [typed |-> Built(conf), streams |-> strs]
           seq == conf["Filename"]
<1>0. seq \in Seq(E)
  OBVIOUS
<1>1. CASE can = TRUE
  <2> DEFINE end == FoldLeft(LAMBDA b, e : InsertFile(b, e, TRUE), base, seq)
  <2>1. Build(conf, strs, can) = Build(conf, strs, TRUE)
    BY <1>1
  <2>2. Build(conf, strs, TRUE) = end
    BY DEF Build, Built
  <2>3. PICK F : /\ F[0] = base
                 /\ \A k \in 1..Len(seq) : F[k] = InsertFile(F[k - 1], seq[k], TRUE)
                 /\ Opening!FoldLeft(LAMBDA b, e : InsertFile(b, e, TRUE), base, seq) = F[Len(seq)]
    <3> HIDE DEF base, seq
    <3> QED BY <1>0, Opening!FoldSteps
  <2>4. end = F[Len(seq)]
    <3> HIDE DEF base, seq
    <3> QED BY <2>3, OpeningFold
  <2> HIDE DEF base, seq, end
  <2> QED BY <1>1, <2>1, <2>2, <2>3, <2>4 DEF base, seq
<1>2. CASE can = FALSE
  <2> DEFINE end == FoldLeft(LAMBDA b, e : InsertFile(b, e, FALSE), base, seq)
  <2>1. Build(conf, strs, can) = Build(conf, strs, FALSE)
    BY <1>2
  <2>2. Build(conf, strs, FALSE) = end
    BY DEF Build, Built
  <2>3. PICK F : /\ F[0] = base
                 /\ \A k \in 1..Len(seq) : F[k] = InsertFile(F[k - 1], seq[k], FALSE)
                 /\ Failing!FoldLeft(LAMBDA b, e : InsertFile(b, e, FALSE), base, seq) = F[Len(seq)]
    <3> HIDE DEF base, seq
    <3> QED BY <1>0, Failing!FoldSteps
  <2>4. end = F[Len(seq)]
    <3> HIDE DEF base, seq
    <3> QED BY <2>3, FailingFold
  <2> HIDE DEF base, seq, end
  <2> QED BY <1>2, <2>1, <2>2, <2>3, <2>4 DEF base, seq
<1> QED BY <1>1, <1>2

(* What a logger looks up.                                                 *)
Serves(typed, can, e) ==
  \A l \in LevelSet :
    /\ Lookup(typed, "Enabled", l) = e
    /\ Lookup(typed, "ToStandardOutput", l) = TRUE
    /\ Lookup(typed, "LogFlushThreshold", l) = 0
    /\ Lookup(typed, "Format", l).shown = l
    /\ Lookup(typed, "FileStream", l) = Handle(can)
    /\ can => Lookup(typed, "ToFile", l) = TRUE

(* A logger serves its settings, whichever configuration it is built from. *)
LEMMA BuildIs ==
  ASSUME NEW can \in BOOLEAN, NEW e \in BOOLEAN, NEW conf, IsConf(conf, e),
         NEW strs \in {NoStreams, Opened(can)}
  PROVE  /\ Build(conf, strs, can).streams = Opened(can)
         /\ Serves(Build(conf, strs, can).typed, can, e)
<1> DEFINE seq == conf["Filename"]
           ty == Built(conf)
           V == {LogFile}
           r == Build(conf, strs, can)
<1>1. /\ "Filename" \in ConfigurationTypes /\ "Enabled" \in ConfigurationTypes
      /\ "ToFile" \in ConfigurationTypes /\ "ToStandardOutput" \in ConfigurationTypes
      /\ "LogFlushThreshold" \in ConfigurationTypes /\ "Format" \in ConfigurationTypes
  BY DEF ConfigurationTypes, FlagTypes, NumberTypes
<1>2. /\ Values("Enabled", e) = {e} /\ Values("ToFile", e) = {TRUE}
      /\ Values("ToStandardOutput", e) = {TRUE} /\ Values("LogFlushThreshold", e) = {0}
      /\ Values("Format", e) = Texts /\ Values("Filename", e) = V
  BY DEF Values, Defaults
<1>3. /\ seq \in Filled(V) /\ conf["Enabled"] \in Filled({e}) /\ conf["ToFile"] \in Filled({TRUE})
      /\ conf["ToStandardOutput"] \in Filled({TRUE})
      /\ conf["LogFlushThreshold"] \in Filled({0})
      /\ conf["Format"] \in Filled(Texts)
  BY <1>1, <1>2, Zenon DEF IsConf
<1>4. seq \in Seq(Entries(V)) /\ Len(seq) \in Nat \ {0}
  BY <1>3, EmptySeq DEF Filled, Starts
<1>5. /\ DOMAIN ty = ConfigurationTypes \cup {"FileStream"} /\ ty["FileStream"] = <<>>
      /\ ty["Enabled"] = SetTyped("Enabled", conf["Enabled"])
      /\ ty["ToFile"] = SetTyped("ToFile", conf["ToFile"])
      /\ ty["ToStandardOutput"] = SetTyped("ToStandardOutput", conf["ToStandardOutput"])
      /\ ty["LogFlushThreshold"] = SetTyped("LogFlushThreshold", conf["LogFlushThreshold"])
      /\ ty["Format"] = SetTyped("Format", conf["Format"])
  BY <1>1 DEF Built
<1> HIDE DEF ty, V
<1>6. /\ ty["Enabled"] = Single(e) /\ ty["ToFile"] = Single(TRUE)
      /\ ty["ToStandardOutput"] = Single(TRUE) /\ ty["LogFlushThreshold"] = Single(0)
  <2>1. ASSUME NEW t \in {"Enabled", "ToFile", "ToStandardOutput", "LogFlushThreshold"}
        PROVE  t # "Format"
    OBVIOUS
  <2>2. SetTyped("Enabled", conf["Enabled"]) = Single(e)
    BY <1>3, <2>1, OneValue
  <2>3. SetTyped("ToFile", conf["ToFile"]) = Single(TRUE)
    BY <1>3, <2>1, OneValue
  <2>4. SetTyped("ToStandardOutput", conf["ToStandardOutput"]) = Single(TRUE)
    BY <1>3, <2>1, OneValue
  <2>5. SetTyped("LogFlushThreshold", conf["LogFlushThreshold"]) = Single(0)
    BY <1>3, <2>1, OneValue
  <2> QED BY <1>5, <2>2, <2>3, <2>4, <2>5, Zenon
<1>7. \A l \in LevelSet : l \in DOMAIN ty["Format"] /\ ty["Format"][l].shown = l
  <2>1. conf["Format"] \in Filled(Texts)
    BY <1>3
  <2>2. ty["Format"] = SetTyped("Format", conf["Format"])
    BY <1>5
  <2> QED BY <2>1, <2>2, FormatsShown, Zenon
<1>8. PICK F : /\ F[0] = [typed |-> ty, streams |-> strs]
               /\ \A k \in 1..Len(seq) : F[k] = InsertFile(F[k - 1], seq[k], can)
               /\ r = F[Len(seq)]
  <2>1. conf["Filename"] \in Seq(Entries(V))
    BY <1>4
  <2>2. \E F : /\ F[0] = [typed |-> Built(conf), streams |-> strs]
               /\ \A k \in 1..Len(conf["Filename"]) :
                    F[k] = InsertFile(F[k - 1], conf["Filename"][k], can)
               /\ Build(conf, strs, can) = F[Len(conf["Filename"])]
    BY <2>1, BuildSteps
  <2> QED BY <2>2 DEF ty
<1> HIDE DEF seq, r
<1> DEFINE S == {n \in Nat : n + 1 <= Len(seq) => After(F[n + 1], ty, can)}
<1>9. ASSUME NEW k \in 1..Len(seq), k = 1 \/ After(F[k - 1], ty, can)
      PROVE  After(F[k], ty, can)
  <2>1. F[k] = InsertFile(F[k - 1], seq[k], can)
    BY <1>8
  <2>2. {"Filename", "FileStream", "ToFile"} \subseteq DOMAIN ty
    BY <1>1, <1>5
  <2>3. CASE k = 1
    <3>1. F[k - 1].typed = ty /\ F[k - 1].streams = strs
      BY <1>8, <2>3
    <3> QED BY <1>5, <2>1, <2>2, <3>1, InsertIs
  <2>4. CASE After(F[k - 1], ty, can)
    BY <2>1, <2>2, <2>4, InsertIs
  <2> QED BY <1>9, <2>3, <2>4
<1>10. 0 \in S
  <2>1. 1 \in 1..Len(seq)
    BY <1>4
  <2> QED BY <1>9, <2>1
<1>11. ASSUME NEW n \in Nat, n \in S
       PROVE  n + 1 \in S
  <2> SUFFICES ASSUME (n + 1) + 1 <= Len(seq) PROVE After(F[(n + 1) + 1], ty, can)
    OBVIOUS
  <2>1. (n + 1) + 1 \in 1..Len(seq) /\ ((n + 1) + 1) - 1 = n + 1 /\ n + 1 <= Len(seq)
    BY <1>4
  <2>2. After(F[n + 1], ty, can)
    BY <1>11, <2>1
  <2> QED BY <1>9, <2>1, <2>2
<1>12. Nat \subseteq S
  <2> HIDE DEF S
  <2> QED BY <1>10, <1>11, One!AllNumbers
<1>13. After(r, ty, can)
  <2>1. Len(seq) - 1 \in S /\ (Len(seq) - 1) + 1 = Len(seq)
    BY <1>4, <1>12
  <2> QED BY <1>4, <1>8, <2>1
<1> HIDE DEF S
<1>14. /\ r.typed["Enabled"] = ty["Enabled"]
       /\ can => r.typed["ToFile"] = ty["ToFile"]
       /\ r.typed["ToStandardOutput"] = ty["ToStandardOutput"]
       /\ r.typed["LogFlushThreshold"] = ty["LogFlushThreshold"]
       /\ r.typed["Format"] = ty["Format"]
       /\ "Global" \in DOMAIN r.typed["FileStream"]
       /\ \A m \in DOMAIN r.typed["FileStream"] : r.typed["FileStream"][m] = Handle(can)
  BY <1>1, <1>5, <1>13 DEF After
<1>15. ASSUME NEW l \in LevelSet
       PROVE  /\ Lookup(r.typed, "Enabled", l) = e
              /\ Lookup(r.typed, "ToStandardOutput", l) = TRUE
              /\ Lookup(r.typed, "LogFlushThreshold", l) = 0
              /\ Lookup(r.typed, "Format", l).shown = l
              /\ Lookup(r.typed, "FileStream", l) = Handle(can)
              /\ can => Lookup(r.typed, "ToFile", l) = TRUE
  <2>1. l # "Global"
    BY LevelsAre
  <2>2. /\ Lookup(r.typed, "Enabled", l) = e
        /\ Lookup(r.typed, "ToStandardOutput", l) = TRUE
        /\ Lookup(r.typed, "LogFlushThreshold", l) = 0
        /\ can => Lookup(r.typed, "ToFile", l) = TRUE
    BY <1>6, <1>14, <2>1 DEF Lookup, Single
  <2>3. Lookup(r.typed, "Format", l).shown = l
    BY <1>7, <1>14 DEF Lookup
  <2>4. Lookup(r.typed, "FileStream", l) = Handle(can)
    BY <1>14 DEF Lookup
  <2> QED BY <2>2, <2>3, <2>4
<1> QED BY <1>13, <1>15 DEF After, Serves, r

LEMMA ConfiguredIs ==
  ASSUME NEW can \in BOOLEAN, NEW e \in BOOLEAN, NEW conf, IsConf(conf, e),
         NEW strs \in {NoStreams, Opened(can)}
  PROVE  LET c == Configured(conf, strs, can)
         IN /\ c.streams = Opened(can) /\ c.logger.conf = conf
            /\ Serves(c.logger.typed, can, e)
            /\ c.logger.unflushed = NoneUnflushed
            /\ DOMAIN c.logger = {"conf", "typed", "unflushed"}
<1> QED BY BuildIs DEF Configured

-----------------------------------------------------------------------------
(* One line.                                                               *)
Begins(s, t) == Len(s) <= Len(t) /\ \A i \in 1..Len(s) : s[i] = t[i]

(* IsPrefix, without the sequences it cuts out.                            *)
LEMMA BeginsIsPrefix ==
  ASSUME NEW S, NEW s \in Seq(S), NEW t \in Seq(S), Begins(s, t)
  PROVE  IsPrefix(s, t)
<1>1. Len(s) \in Nat /\ Len(t) \in Nat /\ Len(s) <= Len(t) /\ \A i \in 1..Len(s) : s[i] = t[i]
  BY LenProperties DEF Begins
<1> DEFINE a == SubSeq(s, 1, Len(s))
           b == SubSeq(t, 1, Len(s))
<1>2. \A i \in 1..Len(s) : s[i] \in S /\ t[i] \in S
  BY <1>1, ElementOfSeq
<1>3. /\ a \in Seq(S) /\ Len(a) = IF 1 <= Len(s) THEN Len(s) - 1 + 1 ELSE 0
      /\ \A i \in 1..Len(s) - 1 + 1 : a[i] = s[1 + i - 1]
  BY <1>1, <1>2, SubSeqProperties
<1>4. /\ b \in Seq(S) /\ Len(b) = IF 1 <= Len(s) THEN Len(s) - 1 + 1 ELSE 0
      /\ \A i \in 1..Len(s) - 1 + 1 : b[i] = t[1 + i - 1]
  BY <1>1, <1>2, SubSeqProperties
<1> HIDE DEF a, b
<1>5. Len(a) = Len(s) /\ Len(b) = Len(s) /\ \A i \in 1..Len(s) : a[i] = s[i] /\ b[i] = t[i]
  BY <1>1, <1>3, <1>4
<1>6. \A i \in 1..Len(a) : a[i] = b[i]
  BY <1>1, <1>5
<1>7. a = b
  BY <1>3, <1>4, <1>5, <1>6, SeqEqual
<1> QED BY <1>1, <1>7 DEF IsPrefix, a, b

LEMMA BeginsStill ==
  ASSUME NEW S, NEW s \in Seq(S), NEW t \in Seq(S), NEW e \in S, Begins(s, t)
  PROVE  Begins(s, Append(t, e))
<1>1. Len(s) \in Nat /\ Len(t) \in Nat
  BY LenProperties
<1>2. Len(Append(t, e)) = Len(t) + 1 /\ \A i \in 1..Len(t) : Append(t, e)[i] = t[i]
  BY AppendProperties
<1> QED BY <1>1, <1>2 DEF Begins

OneHandle(b, bad) == [handles |-> <<[buffer |-> b, bad |-> bad]>>, shared |-> <<1>>]

(* What has been handed over and what is still buffered.                   *)
StreamInv(strs, text, shown) ==
  IF creatable
  THEN \E b \in Seq(LineRecords), bad \in BOOLEAN :
         /\ strs = OneHandle(b, bad)
         /\ Begins(text \o b, shown)
         /\ ~bad => b = <<>> /\ text = shown
  ELSE strs = Opened(FALSE) /\ text = <<>>

(* A logger that is switched on or off by e, and what a line is given to.  *)
Ready(logger, e) ==
  /\ DOMAIN logger = {"conf", "typed", "unflushed"}
  /\ Serves(logger.typed, creatable, e)
  /\ logger.unflushed = NoneUnflushed

ReadyAll(regs) ==
  /\ DOMAIN regs = {"default", "performance", "connection"}
  /\ Ready(regs["default"], TRUE) /\ Ready(regs["connection"], verbose)

Fit(s) ==
  /\ DOMAIN s = {"loggers", "streams", "file", "screen"}
  /\ ReadyAll(s.loggers)
  /\ s.file \in Seq(LineRecords) /\ s.screen \in Seq(LineRecords)
  /\ StreamInv(s.streams, s.file, s.screen)

(* The line that the logger id makes at the level l.                       *)
TheLine(id, l) == [logger |-> id, level |-> l, shown |-> l, number |-> lines]

LEMMA OneHandleIs ==
  ASSUME NEW b, NEW bad
  PROVE  /\ OneHandle(b, bad).handles = <<[buffer |-> b, bad |-> bad]>>
         /\ OneHandle(b, bad).handles[1].buffer = b /\ OneHandle(b, bad).handles[1].bad = bad
         /\ DOMAIN OneHandle(b, bad).handles = {1}
<1> QED BY DEF OneHandle

(* What the writing of a line changes.                                     *)
WithStreams(s, strs) == [s EXCEPT !.streams = strs]
WithLine(s, e) == [s EXCEPT !.streams.handles[1].buffer = Append(@, e)]
WithBuffer(s, b) == [s EXCEPT !.streams.handles[1].buffer = b]
WithBad(s, bad) == [s EXCEPT !.streams.handles[1].bad = bad]

LEMMA HandleReplaced ==
  ASSUME NEW b, NEW bad, NEW c, NEW bad2, NEW x, x = [buffer |-> c, bad |-> bad2]
  PROVE  [OneHandle(b, bad) EXCEPT !.handles = [@ EXCEPT ![1] = x]] = OneHandle(c, bad2)
<1>1. \A a : [<<a>> EXCEPT ![1] = x] = <<x>>
  OBVIOUS
<1> QED BY <1>1 DEF OneHandle

LEMMA Replaced ==
  ASSUME NEW s, NEW b, NEW bad, s.streams = OneHandle(b, bad)
  PROVE  /\ \A e : WithLine(s, e) = WithStreams(s, OneHandle(Append(b, e), bad))
         /\ \A c : WithBuffer(s, c) = WithStreams(s, OneHandle(c, bad))
         /\ \A bad2 : WithBad(s, bad2) = WithStreams(s, OneHandle(b, bad2))
<1> DEFINE hd == [buffer |-> b, bad |-> bad]
           Z(x) == [OneHandle(b, bad) EXCEPT !.handles = [@ EXCEPT ![1] = x]]
<1>1. s.streams.handles[1] = hd
  BY OneHandleIs DEF OneHandle
<1>2. ASSUME NEW c
      PROVE  WithBuffer(s, c) = WithStreams(s, OneHandle(c, bad))
  <2> DEFINE x == [hd EXCEPT !.buffer = c]
  <2>1. WithBuffer(s, c) = WithStreams(s, Z(x))
    BY <1>1 DEF WithBuffer, WithStreams
  <2>2. x = [buffer |-> c, bad |-> bad]
    OBVIOUS
  <2> HIDE DEF x
  <2>3. Z(x) = OneHandle(c, bad)
    BY <2>2, HandleReplaced
  <2> HIDE DEF Z
  <2> QED BY <2>1, <2>3
<1>3. ASSUME NEW e
      PROVE  WithLine(s, e) = WithStreams(s, OneHandle(Append(b, e), bad))
  <2>1. WithLine(s, e) = WithBuffer(s, Append(s.streams.handles[1].buffer, e))
    BY DEF WithLine, WithBuffer
  <2>2. s.streams.handles[1].buffer = b
    BY <1>1
  <2> QED BY <1>2, <2>1, <2>2
<1>4. ASSUME NEW bad2
      PROVE  WithBad(s, bad2) = WithStreams(s, OneHandle(b, bad2))
  <2> DEFINE x == [hd EXCEPT !.bad = bad2]
  <2>1. WithBad(s, bad2) = WithStreams(s, Z(x))
    BY <1>1 DEF WithBad, WithStreams
  <2>2. x = [buffer |-> b, bad |-> bad2]
    OBVIOUS
  <2> HIDE DEF x
  <2>3. Z(x) = OneHandle(b, bad2)
    BY <2>2, HandleReplaced
  <2> HIDE DEF Z
  <2> QED BY <2>1, <2>3
<1> QED BY <1>2, <1>3, <1>4

LEMMA LineIs ==
  ASSUME NEW s, Fit(s), NEW id \in {"default", "connection"}, NEW l \in LevelSet,
         lines \in 0..MaxLines
  PROVE  /\ Line(s, id, l) = TheLine(id, l) /\ TheLine(id, l) \in LineRecords
         /\ IsFlushNeeded(s, id, l)
<1>1. /\ Serves(s.loggers[id].typed, creatable, IF id = "default" THEN TRUE ELSE verbose)
      /\ s.loggers[id].unflushed = NoneUnflushed
  BY DEF Fit, ReadyAll, Ready
<1>2. /\ Lookup(s.loggers[id].typed, "Format", l).shown = l
      /\ Lookup(s.loggers[id].typed, "LogFlushThreshold", l) = 0
      /\ s.loggers[id].unflushed[l] = 0
  BY <1>1 DEF Serves, NoneUnflushed
<1> QED BY <1>2 DEF Line, TheLine, LineRecords, IsFlushNeeded

(* Counting the line and starting over leaves the counts as they were.     *)
Counted(regs, id, l) == [regs EXCEPT ![id].unflushed[l] = 0]

LEMMA CountsKept ==
  ASSUME NEW regs, ReadyAll(regs), NEW id \in {"default", "connection"}, NEW l \in LevelSet
  PROVE  ReadyAll(Counted(regs, id, l))
<1> DEFINE r == Counted(regs, id, l)
           none == [regs[id].unflushed EXCEPT ![l] = 0]
           lg == [regs[id] EXCEPT !.unflushed = none]
<1>1. r = [regs EXCEPT ![id] = lg]
  BY DEF Counted
<1>2. none = NoneUnflushed
  BY DEF ReadyAll, Ready, NoneUnflushed
<1> HIDE DEF none
<1>3. /\ DOMAIN lg = {"conf", "typed", "unflushed"}
      /\ lg.typed = regs[id].typed /\ lg.unflushed = NoneUnflushed
  BY <1>2 DEF ReadyAll, Ready
<1> HIDE DEF lg, r
<1>4. DOMAIN r = DOMAIN regs /\ \A i \in DOMAIN regs : r[i] = IF i = id THEN lg ELSE regs[i]
  BY <1>1
<1> QED BY <1>3, <1>4 DEF ReadyAll, Ready, r

(* A line that is put into the buffer, and handed over if the disk has     *)
(* room for it.                                                            *)
HandedOver(s, b, bad, f) ==
  \E c \in Seq(LineRecords), bad2 \in BOOLEAN :
    /\ DOMAIN f = DOMAIN s /\ f.loggers = s.loggers /\ f.screen = s.screen
    /\ f.file \in Seq(LineRecords) /\ f.streams = OneHandle(c, bad2)
    /\ f.file \o c = s.file \o b
    /\ ~bad2 => ~bad /\ c = <<>> /\ f.file = s.file \o b

LEMMA FlushedIs ==
  ASSUME NEW s, DOMAIN s = {"loggers", "streams", "file", "screen"}, full \in BOOLEAN,
         s.file \in Seq(LineRecords), NEW b \in Seq(LineRecords), NEW bad \in BOOLEAN,
         s.streams = OneHandle(b, bad)
  PROVE  HandedOver(s, b, bad, Flushed(s, 1))
<1> DEFINE f == Flushed(s, 1)
<1>1. s.streams.handles[1].buffer = b
  <2>1. OneHandle(b, bad).handles[1].buffer = b
    BY OneHandleIs, Zenon
  <2> QED BY <2>1
<1>2. s.file \o b \in Seq(LineRecords)
  BY ConcatProperties
<1>3. CASE b = <<>>
  <2>1. f = s
    BY <1>1, <1>3 DEF Flushed
  <2>2. s.file \o b = s.file
    BY <1>3, ConcatEmptySeq
  <2> HIDE DEF f
  <2> QED BY <1>3, <2>1, <2>2 DEF f, HandedOver
<1>4. CASE b # <<>> /\ full
  <2>1. f = WithBad(s, TRUE)
    BY <1>1, <1>4, Zenon DEF Flushed, WithBad
  <2>2. WithBad(s, TRUE) = WithStreams(s, OneHandle(b, TRUE))
    <3>1. \A bad2 : WithBad(s, bad2) = WithStreams(s, OneHandle(b, bad2))
      BY Replaced
    <3> QED BY <3>1, Zenon
  <2> HIDE DEF f
  <2>3. /\ DOMAIN f = DOMAIN s /\ f.loggers = s.loggers /\ f.screen = s.screen
        /\ f.file = s.file /\ f.streams = OneHandle(b, TRUE)
    BY <2>1, <2>2 DEF WithStreams
  <2> QED BY <2>3 DEF f, HandedOver
<1>5. CASE b # <<>> /\ ~full
  <2> DEFINE t == WithBuffer(s, <<>>)
  <2>1. f = [t EXCEPT !.file = s.file \o b]
    BY <1>1, <1>5 DEF Flushed, WithBuffer
  <2>2. t = WithStreams(s, OneHandle(<<>>, bad))
    BY Replaced
  <2> HIDE DEF f, t
  <2>3. /\ DOMAIN t = DOMAIN s /\ t.loggers = s.loggers /\ t.screen = s.screen
        /\ t.streams = OneHandle(<<>>, bad)
    BY <2>2 DEF WithStreams
  <2>4. /\ DOMAIN f = DOMAIN s /\ f.loggers = s.loggers /\ f.screen = s.screen
        /\ f.file = s.file \o b /\ f.streams = OneHandle(<<>>, bad)
    BY <2>1, <2>3
  <2>5. (s.file \o b) \o <<>> = s.file \o b /\ <<>> \in Seq(LineRecords)
    BY <1>2, ConcatEmptySeq, EmptySeq
  <2> QED BY <1>2, <2>4, <2>5 DEF f, HandedOver
<1> QED BY <1>3, <1>4, <1>5

(* Whatever happens to the line, the file with the buffer goes on with it. *)
LEMMA WriteIs ==
  ASSUME NEW s, Fit(s), NEW id \in {"default", "connection"}, NEW l \in LevelSet,
         lines \in 0..MaxLines, creatable = TRUE, full \in BOOLEAN
  PROVE  LET w == WriteToFile(s, id, l, 1)
         IN /\ DOMAIN w = DOMAIN s /\ ReadyAll(w.loggers)
            /\ w.file \in Seq(LineRecords) /\ w.screen = s.screen
            /\ StreamInv(w.streams, w.file, Append(s.screen, TheLine(id, l)))
<1> DEFINE line == TheLine(id, l)
           w == WriteToFile(s, id, l, 1)
<1>0. Line(s, id, l) = line /\ line \in LineRecords /\ IsFlushNeeded(s, id, l)
  BY LineIs
<1> HIDE DEF line
<1>1. PICK b \in Seq(LineRecords), bad \in BOOLEAN :
        /\ s.streams = OneHandle(b, bad)
        /\ Begins(s.file \o b, s.screen)
        /\ ~bad => b = <<>> /\ s.file = s.screen
  BY DEF Fit, StreamInv
<1>2. s.streams.handles[1].buffer = b /\ s.streams.handles[1].bad = bad
  <2>1. OneHandle(b, bad).handles[1].buffer = b /\ OneHandle(b, bad).handles[1].bad = bad
    BY OneHandleIs, Zenon
  <2> QED BY <1>1, <2>1, Zenon
<1>3. /\ s.file \in Seq(LineRecords) /\ s.screen \in Seq(LineRecords)
      /\ DOMAIN s = {"loggers", "streams", "file", "screen"} /\ ReadyAll(s.loggers)
  BY DEF Fit
<1>4. CASE bad
  <2>1. w = s
    BY <1>2, <1>4 DEF WriteToFile
  <2>2. s.file \o b \in Seq(LineRecords)
    BY <1>1, <1>3, ConcatProperties
  <2>3. Begins(s.file \o b, Append(s.screen, line))
    BY <1>0, <1>1, <1>3, <2>2, BeginsStill
  <2>4. StreamInv(w.streams, w.file, Append(s.screen, line))
    BY <1>1, <1>4, <2>1, <2>3 DEF StreamInv
  <2> QED BY <1>3, <2>1, <2>4 DEF line
<1>5. CASE ~bad
  <2> DEFINE written == WithLine(s, line)
             f == Flushed(written, 1)
             next == Append(s.screen, line)
  <2>1. b = <<>> /\ s.file = s.screen /\ ~s.streams.handles[1].bad
    BY <1>1, <1>2, <1>5
  <2>2. Append(b, line) = <<line>> /\ <<line>> \in Seq(LineRecords)
    BY <1>0, <2>1
  <2>3. written = WithStreams(s, OneHandle(<<line>>, bad))
    <3>1. s.streams = OneHandle(b, bad)
      BY <1>1
    <3>2. WithLine(s, line) = WithStreams(s, OneHandle(Append(b, line), bad))
      BY <3>1, Replaced
    <3> QED BY <2>2, <3>2
  <2>4. w = [f EXCEPT !.loggers[id].unflushed[l] = 0]
    BY <1>0, <2>1 DEF WriteToFile, WithLine
  <2> HIDE DEF written
  <2>5. /\ DOMAIN written = DOMAIN s /\ written.loggers = s.loggers
        /\ written.file = s.file /\ written.screen = s.screen
        /\ written.streams = OneHandle(<<line>>, bad)
    BY <1>3, <2>3 DEF WithStreams
  <2>6. PICK c \in Seq(LineRecords), bad2 \in BOOLEAN :
          /\ DOMAIN f = DOMAIN s /\ f.loggers = s.loggers /\ f.screen = s.screen
          /\ f.file \in Seq(LineRecords) /\ f.streams = OneHandle(c, bad2)
          /\ f.file \o c = s.screen \o <<line>>
          /\ ~bad2 => c = <<>> /\ f.file = s.screen \o <<line>>
    <3>1. /\ DOMAIN written = {"loggers", "streams", "file", "screen"}
          /\ written.file \in Seq(LineRecords)
      BY <1>3, <2>5
    <3>2. HandedOver(written, <<line>>, bad, Flushed(written, 1))
      BY <2>2, <2>5, <3>1, FlushedIs
    <3> HIDE DEF f
    <3> QED BY <2>1, <2>5, <3>2 DEF HandedOver, f
  <2> HIDE DEF f, w
  <2>7. s.screen \o <<line>> = next
    BY <1>0, <1>3
  <2>8. /\ w.streams = f.streams /\ w.file = f.file /\ w.screen = f.screen
        /\ DOMAIN w = DOMAIN f
    BY <1>3, <2>4, <2>6
  <2>9. ReadyAll(w.loggers)
    <3>1. w.loggers = Counted(f.loggers, id, l)
      BY <1>3, <2>4, <2>6 DEF Counted
    <3> QED BY <1>3, <2>6, <3>1, CountsKept
  <2>10. Begins(next, next)
    <3>1. next \in Seq(LineRecords)
      BY <1>0, <1>3, AppendProperties
    <3> HIDE DEF next
    <3> QED BY <3>1, LenProperties DEF Begins
  <2> HIDE DEF next
  <2>11. StreamInv(w.streams, w.file, next)
    <3>1. Begins(w.file \o c, next) /\ (~bad2 => c = <<>> /\ w.file = next)
      BY <2>6, <2>7, <2>8, <2>10
    <3> QED BY <2>6, <2>8, <3>1 DEF StreamInv
  <2> QED BY <2>6, <2>8, <2>9, <2>11 DEF w, line, next
<1> QED BY <1>1, <1>4, <1>5

(* A line that is dispatched is on the screen, and what it is given to     *)
(* stays fit.                                                              *)
LEMMA DispatchIs ==
  ASSUME NEW s, Fit(s), NEW id \in {"default", "connection"}, NEW l \in LevelSet,
         lines \in 0..MaxLines, creatable \in BOOLEAN, full \in BOOLEAN
  PROVE  /\ Fit(Dispatch(s, id, l))
         /\ Dispatch(s, id, l).screen = Append(s.screen, TheLine(id, l))
         /\ TheLine(id, l) \in LineRecords
<1> DEFINE line == TheLine(id, l)
           h == Lookup(s.loggers[id].typed, "FileStream", l)
           s1 == IF Lookup(s.loggers[id].typed, "ToFile", l) /\ h # 0
                 THEN WriteToFile(s, id, l, h) ELSE s
           d == Dispatch(s, id, l)
<1>1. Line(s, id, l) = line /\ line \in LineRecords
  BY LineIs
<1> HIDE DEF line
<1>2. Serves(s.loggers[id].typed, creatable, IF id = "default" THEN TRUE ELSE verbose)
  BY DEF Fit, ReadyAll, Ready
<1>3. /\ h = Handle(creatable)
      /\ Lookup(s.loggers[id].typed, "ToStandardOutput", l) = TRUE
      /\ creatable => Lookup(s.loggers[id].typed, "ToFile", l) = TRUE
  BY <1>2 DEF Serves
<1>4. /\ s.file \in Seq(LineRecords) /\ s.screen \in Seq(LineRecords)
      /\ DOMAIN s = {"loggers", "streams", "file", "screen"} /\ ReadyAll(s.loggers)
  BY DEF Fit
<1>5. /\ DOMAIN s1 = DOMAIN s /\ ReadyAll(s1.loggers) /\ s1.file \in Seq(LineRecords)
      /\ s1.screen = s.screen
      /\ StreamInv(s1.streams, s1.file, Append(s.screen, line))
  <2>1. CASE creatable
    <3>1. s1 = WriteToFile(s, id, l, 1)
      BY <1>3, <2>1 DEF Handle
    <3> HIDE DEF s1
    <3> QED BY <2>1, <3>1, WriteIs DEF line
  <2>2. CASE ~creatable
    <3>1. s1 = s
      BY <1>3, <2>2 DEF Handle
    <3>2. s.streams = Opened(FALSE) /\ s.file = <<>>
      BY <2>2 DEF Fit, StreamInv
    <3> QED BY <1>4, <2>2, <3>1, <3>2 DEF StreamInv
  <2> QED BY <2>1, <2>2
<1>6. d = [s1 EXCEPT !.screen = Append(@, Line(s, id, l))]
  BY <1>3 DEF Dispatch
<1> HIDE DEF s1, d
<1>7. /\ DOMAIN d = DOMAIN s1 /\ d.loggers = s1.loggers /\ d.streams = s1.streams
      /\ d.file = s1.file /\ d.screen = Append(s.screen, line)
  BY <1>1, <1>4, <1>5, <1>6
<1>8. Append(s.screen, line) \in Seq(LineRecords)
  BY <1>1, <1>4, AppendProperties
<1>9. Fit(d)
  BY <1>4, <1>5, <1>7, <1>8 DEF Fit
<1> QED BY <1>1, <1>7, <1>9 DEF d, line

-----------------------------------------------------------------------------
(* The streams are few: handing them over is no step, or one.              *)
Handing == INSTANCE Fold_proofs WITH Op <- LAMBDA s, h : s \o streams.handles[h].buffer
Flushing == INSTANCE Fold_proofs WITH Op <- Flushed

LEMMA HandingFold ==
  ASSUME NEW base, NEW seq
  PROVE  FoldLeft(LAMBDA s, h : s \o streams.handles[h].buffer, base, seq) =
           Handing!FoldLeft(LAMBDA s, h : s \o streams.handles[h].buffer, base, seq)
<1> QED BY DEF FoldLeft, Handing!FoldLeft, MapThenFoldSet, Handing!MapThenFoldSet, Max,
         Handing!Max

LEMMA FlushingFold ==
  ASSUME NEW base, NEW seq
  PROVE  FoldLeft(Flushed, base, seq) = Flushing!FoldLeft(Flushed, base, seq)
<1> QED BY DEF FoldLeft, Flushing!FoldLeft, MapThenFoldSet, Flushing!MapThenFoldSet, Max,
         Flushing!Max

LEMMA HandlesAre ==
  ASSUME creatable \in BOOLEAN, NEW text, NEW shown, NEW strs, StreamInv(strs, text, shown)
  PROVE  [h \in DOMAIN strs.handles |-> h] = IF creatable THEN <<1>> ELSE <<>>
<1>1. CASE creatable
  <2>1. PICK b, bad : strs = OneHandle(b, bad)
    BY <1>1 DEF StreamInv
  <2>2. DOMAIN strs.handles = {1}
    BY <2>1, OneHandleIs
  <2>3. <<1>> = [h \in {1} |-> h]
    OBVIOUS
  <2> QED BY <1>1, <2>2, <2>3
<1>2. CASE ~creatable
  <2>1. strs.handles = <<>>
    BY <1>2 DEF StreamInv, Opened
  <2>2. <<>> = [h \in {} |-> h]
    OBVIOUS
  <2> QED BY <1>2, <2>1, <2>2
<1> QED BY <1>1, <1>2

LEMMA NoneHanded ==
  ASSUME [h \in DOMAIN streams.handles |-> h] = <<>>, file = <<>>, screen \in Seq(LineRecords)
  PROVE  FileFollowsScreen
<1> DEFINE seq == [h \in DOMAIN streams.handles |-> h]
           handed == FoldLeft(LAMBDA s, h : s \o streams.handles[h].buffer, file, seq)
<1>1. handed = file
  <2>1. Handing!FoldLeft(LAMBDA s, h : s \o streams.handles[h].buffer, file, <<>>) = file
    BY Handing!FoldNone
  <2> HIDE DEF seq
  <2>2. seq = <<>>
    BY DEF seq
  <2> QED BY <2>1, <2>2, HandingFold
<1> HIDE DEF handed
<1>2. Begins(<<>>, screen) /\ <<>> \in Seq(LineRecords)
  BY LenProperties, EmptySeq DEF Begins
<1>3. IsPrefix(handed, screen)
  BY <1>1, <1>2, BeginsIsPrefix
<1> QED BY <1>3 DEF FileFollowsScreen, handed

LEMMA AllHanded ==
  ASSUME creatable \in BOOLEAN, file \in Seq(LineRecords), screen \in Seq(LineRecords),
         StreamInv(streams, file, screen)
  PROVE  FileFollowsScreen
<1> DEFINE seq == [h \in DOMAIN streams.handles |-> h]
           handed == FoldLeft(LAMBDA s, h : s \o streams.handles[h].buffer, file, seq)
<1>1. seq = IF creatable THEN <<1>> ELSE <<>>
  BY HandlesAre
<1>2. CASE creatable
  <2>1. PICK b \in Seq(LineRecords), bad \in BOOLEAN :
          streams = OneHandle(b, bad) /\ Begins(file \o b, screen)
    BY <1>2 DEF StreamInv
  <2>2. streams.handles[1].buffer = b
    <3>1. OneHandle(b, bad).handles[1].buffer = b
      BY OneHandleIs, Zenon
    <3> QED BY <2>1, <3>1
  <2>3. handed = file \o streams.handles[1].buffer
    <3>1. Handing!FoldLeft(LAMBDA s, h : s \o streams.handles[h].buffer, file, <<1>>) =
            file \o streams.handles[1].buffer
      BY Handing!FoldOnce
    <3> HIDE DEF seq
    <3> QED BY <1>1, <1>2, <3>1, HandingFold
  <2> HIDE DEF handed
  <2>4. handed \in Seq(LineRecords) /\ Begins(handed, screen)
    BY <2>1, <2>2, <2>3, ConcatProperties
  <2>5. IsPrefix(handed, screen)
    BY <2>4, BeginsIsPrefix
  <2> QED BY <2>5 DEF FileFollowsScreen, handed
<1>3. CASE ~creatable
  <2>1. file = <<>> /\ seq = <<>>
    BY <1>1, <1>3 DEF StreamInv
  <2> QED BY <2>1, NoneHanded
<1> QED BY <1>2, <1>3

(* At the end what is buffered is handed over, if the disk has room.       *)
LEMMA ExitIs ==
  ASSUME NEW s, Fit(s), creatable \in BOOLEAN, full \in BOOLEAN
  PROVE  LET f == FoldLeft(Flushed, s, [h \in DOMAIN s.streams.handles |-> h])
         IN f.file \in Seq(LineRecords) /\ StreamInv(f.streams, f.file, s.screen)
<1> DEFINE seq == [h \in DOMAIN s.streams.handles |-> h]
           f == FoldLeft(Flushed, s, seq)
<1>1. seq = IF creatable THEN <<1>> ELSE <<>>
  BY HandlesAre DEF Fit
<1> HIDE DEF seq
<1>2. /\ s.file \in Seq(LineRecords) /\ StreamInv(s.streams, s.file, s.screen)
      /\ DOMAIN s = {"loggers", "streams", "file", "screen"} /\ s.screen \in Seq(LineRecords)
  BY DEF Fit
<1>3. CASE creatable
  <2>1. f = Flushed(s, 1)
    <3>1. Flushing!FoldLeft(Flushed, s, <<1>>) = Flushed(s, 1)
      BY Flushing!FoldOnce
    <3> QED BY <1>1, <1>3, <3>1, FlushingFold
  <2> HIDE DEF f
  <2>2. PICK b \in Seq(LineRecords), bad \in BOOLEAN :
          /\ s.streams = OneHandle(b, bad)
          /\ Begins(s.file \o b, s.screen)
          /\ ~bad => b = <<>> /\ s.file = s.screen
    BY <1>2, <1>3 DEF StreamInv
  <2>3. HandedOver(s, b, bad, Flushed(s, 1))
    BY <1>2, <2>2, FlushedIs
  <2>4. PICK c \in Seq(LineRecords), bad2 \in BOOLEAN :
          /\ f.file \in Seq(LineRecords) /\ f.streams = OneHandle(c, bad2)
          /\ f.file \o c = s.file \o b
          /\ ~bad2 => ~bad /\ c = <<>> /\ f.file = s.file \o b
    BY <2>1, <2>3 DEF HandedOver
  <2>5. ~bad2 => f.file = s.screen
    <3>1. s.screen \o <<>> = s.screen
      BY <1>2, ConcatEmptySeq
    <3> QED BY <2>2, <2>4, <3>1
  <2>6. Begins(f.file \o c, s.screen)
    BY <2>2, <2>4
  <2>7. StreamInv(f.streams, f.file, s.screen)
    BY <1>3, <2>4, <2>5, <2>6 DEF StreamInv
  <2> QED BY <2>4, <2>7 DEF f, seq
<1>4. CASE ~creatable
  <2>1. f = s
    <3>1. Flushing!FoldLeft(Flushed, s, <<>>) = s
      BY Flushing!FoldNone
    <3> QED BY <1>1, <1>4, <3>1, FlushingFold
  <2> HIDE DEF f
  <2> QED BY <1>2, <2>1 DEF f, seq
<1> QED BY <1>3, <1>4

(* A new logger, and the two of the storage.                               *)
LEMMA NewIs ==
  ASSUME NEW can \in BOOLEAN, NEW strs \in {NoStreams, Opened(can)}
  PROVE  LET n == NewLogger(strs, can)
         IN /\ n.streams = Opened(can) /\ n.logger.conf = DefaultConfiguration
            /\ IsConf(DefaultConfiguration, TRUE) /\ Serves(n.logger.typed, can, TRUE)
            /\ n.logger.unflushed = NoneUnflushed
            /\ DOMAIN n.logger = {"conf", "typed", "unflushed"}
<1>1. IsConf(DefaultConfiguration, TRUE)
  BY DefaultIs, FromBaseIs DEF DefaultConfiguration
<1> DEFINE n == Configured(DefaultConfiguration, strs, can)
<1>2. ASSUME NEW e \in BOOLEAN, e = TRUE
      PROVE  /\ n.streams = Opened(can) /\ n.logger.conf = DefaultConfiguration
             /\ Serves(n.logger.typed, can, e) /\ n.logger.unflushed = NoneUnflushed
             /\ DOMAIN n.logger = {"conf", "typed", "unflushed"}
  <2>1. IsConf(DefaultConfiguration, e)
    BY <1>1, <1>2
  <2> HIDE DEF n
  <2> QED BY <2>1, ConfiguredIs DEF n
<1> HIDE DEF n
<1>3. Serves(n.logger.typed, can, TRUE)
  <2>1. TRUE \in BOOLEAN
    OBVIOUS
  <2> QED BY <1>2, <2>1, Zenon
<1>4. NewLogger(strs, can) = n
  BY DEF NewLogger, n
<1> QED BY <1>1, <1>2, <1>3, <1>4

LEMMA RegisteredIs ==
  ASSUME NEW regs, NEW id, NEW logger
  PROVE  /\ DOMAIN Registered(regs, id, logger) = DOMAIN regs \cup {id}
         /\ Registered(regs, id, logger)[id] = logger
         /\ \A i \in DOMAIN regs \ {id} : Registered(regs, id, logger)[i] = regs[i]
<1> QED BY DEF Registered

LEMMA FirstIs ==
  ASSUME creatable \in BOOLEAN
  PROVE  LET f == FirstLoggers[creatable]
         IN /\ f.streams = Opened(creatable) /\ DOMAIN f.loggers = {"default", "performance"}
            /\ Ready(f.loggers["default"], TRUE)
<1> DEFINE f == FirstLoggers[creatable]
           d == NewLogger(NoStreams, creatable)
           p == NewLogger(d.streams, creatable)
           conf == SetGlobally(p.logger.conf, "Format", "performance")
           c == Configured(conf, p.streams, creatable)
           one == Registered(<<>>, "default", d.logger)
<1>1. f = [loggers |-> Registered(one, "performance", c.logger), streams |-> c.streams]
  BY DEF FirstLoggers
<1> HIDE DEF f
<1>2. d.streams = Opened(creatable) /\ Ready(d.logger, TRUE)
  BY NewIs DEF Ready
<1>3. /\ p.streams = Opened(creatable) /\ p.logger.conf = DefaultConfiguration
      /\ IsConf(DefaultConfiguration, TRUE)
  <2> HIDE DEF d
  <2> QED BY <1>2, NewIs
<1>4. c.streams = Opened(creatable)
  <2>1. IsConf(conf, TRUE)
    <3> HIDE DEF p
    <3> QED BY <1>3, PerformanceSet
  <2> HIDE DEF p, conf
  <2>2. ASSUME NEW e \in BOOLEAN, e = TRUE
        PROVE  c.streams = Opened(creatable)
    <3>1. IsConf(conf, e)
      BY <2>1, <2>2
    <3>2. p.streams \in {NoStreams, Opened(creatable)}
      BY <1>3
    <3> HIDE DEF c
    <3> QED BY <3>1, <3>2, ConfiguredIs DEF c
  <2>3. TRUE \in BOOLEAN
    OBVIOUS
  <2> QED BY <2>2, <2>3, Zenon
<1> HIDE DEF d, p, c, conf
<1>5. DOMAIN one = {"default"} /\ one["default"] = d.logger
  <2>1. DOMAIN <<>> = {}
    OBVIOUS
  <2>2. DOMAIN one = DOMAIN <<>> \cup {"default"}
    BY RegisteredIs, Zenon
  <2>3. one["default"] = d.logger
    BY DEF Registered
  <2> QED BY <2>1, <2>2, <2>3
<1> HIDE DEF one
<1>6. /\ DOMAIN f.loggers = {"default", "performance"} /\ f.loggers["default"] = d.logger
      /\ f.streams = c.streams
  <2> DEFINE two == Registered(one, "performance", c.logger)
  <2>1. DOMAIN two = DOMAIN one \cup {"performance"}
    BY RegisteredIs, Zenon
  <2>2. two["default"] = one["default"]
    BY <1>5 DEF Registered
  <2> HIDE DEF two
  <2>3. f.loggers = two /\ f.streams = c.streams
    BY <1>1 DEF two
  <2> QED BY <1>5, <2>1, <2>2, <2>3
<1> QED BY <1>2, <1>4, <1>6 DEF f

-----------------------------------------------------------------------------
(* The logging part, phase by phase.                                       *)
Starting == {"static", "main", "format", "enabled", "logger", "reconfigure"}

CountInv ==
  /\ pc \in Starting \cup {"running", "aborted", "ended"}
  /\ verbose \in BOOLEAN /\ creatable \in BOOLEAN /\ full \in BOOLEAN
  /\ outages \in 0..MaxOutages /\ lines \in 0..MaxLines /\ informed \in 0..lines

ConfInv ==
  /\ pc \in {"static", "main"} => logConf = Empty
  /\ pc \in {"format", "enabled"} => IsConf(logConf, TRUE)
  /\ pc \in {"logger", "reconfigure"} => IsConf(logConf, verbose)

BeginInv ==
  /\ pc = "static" => loggers = <<>> /\ streams = NoStreams
  /\ pc \in Starting \ {"static"} =>
       /\ streams = Opened(creatable) /\ Ready(loggers["default"], TRUE)
       /\ DOMAIN loggers = {"default", "performance"} \cup
                           (IF pc = "reconfigure" THEN {"connection"} ELSE {})
  /\ pc = "reconfigure" => IsConf(loggers["connection"].conf, TRUE)
  /\ pc \in Starting => file = <<>> /\ screen = <<>> /\ lines = 0 /\ informed = 0

Heard(text) == {n \in DOMAIN text : text[n].logger = "connection"}

RunInv ==
  /\ pc \notin Starting => Fit(Now)
  /\ pc = "aborted" => \E i \in DOMAIN screen : screen[i].level = "Fatal"
  /\ Cardinality(Heard(screen)) = IF verbose THEN informed ELSE 0

LogInv == CountInv /\ ConfInv /\ BeginInv /\ RunInv

(* How many lines of the connections a text has.                           *)
LEMMA HeardAfter ==
  ASSUME NEW text \in Seq(LineRecords), NEW e \in LineRecords
  PROVE  Cardinality(Heard(Append(text, e))) =
           Cardinality(Heard(text)) + (IF e.logger = "connection" THEN 1 ELSE 0)
<1> DEFINE S == Heard(text)
           t == Append(text, e)
           k == Len(text) + 1
<1>1. /\ Len(text) \in Nat /\ DOMAIN text = 1..Len(text)
      /\ DOMAIN t = 1..k /\ t[k] = e /\ \A n \in 1..Len(text) : t[n] = text[n]
  BY LenProperties, AppendProperties
<1> HIDE DEF t
<1>2. IsFiniteSet(S) /\ k \notin S
  <2>1. S \subseteq 1..Len(text) /\ k \notin 1..Len(text)
    BY <1>1 DEF Heard
  <2>2. IsFiniteSet(1..Len(text))
    BY <1>1, FS_Interval
  <2> QED BY <2>1, <2>2, FS_Subset
<1>3. Heard(t) = IF e.logger = "connection" THEN S \cup {k} ELSE S
  BY <1>1 DEF Heard
<1>4. Cardinality(S \cup {k}) = Cardinality(S) + 1 /\ Cardinality(S) \in Nat
  <2> HIDE DEF S
  <2> QED BY <1>2, FS_AddElement, FS_CardinalityType
<1> QED BY <1>3, <1>4 DEF t

LEMMA HeardFirst == Cardinality(Heard(<<>>)) = 0
<1>1. Heard(<<>>) = {}
  BY DEF Heard
<1> QED BY <1>1, FS_EmptySet

(* What is fit when it is computed is fit when it has become the state.    *)
LEMMA FitNow ==
  ASSUME NEW s, Fit(s), loggers' = s.loggers, streams' = s.streams, file' = s.file,
         screen' = s.screen, UNCHANGED <<creatable, verbose>>
  PROVE  Fit(Now)'
<1>1. /\ ReadyAll(s.loggers) /\ s.file \in Seq(LineRecords) /\ s.screen \in Seq(LineRecords)
      /\ StreamInv(s.streams, s.file, s.screen)
  BY DEF Fit
<1>2. ReadyAll(loggers)'
  BY <1>1 DEF ReadyAll, Ready
<1>3. StreamInv(streams, file, screen)'
  BY <1>1 DEF StreamInv
<1>4. /\ DOMAIN Now' = {"loggers", "streams", "file", "screen"}
      /\ Now'.loggers = loggers' /\ Now'.streams = streams' /\ Now'.file = file'
      /\ Now'.screen = screen'
  BY DEF Now
<1> HIDE DEF Now
<1>5. ReadyAll(Now.loggers)' /\ StreamInv(Now.streams, Now.file, Now.screen)'
  BY <1>2, <1>3, <1>4 DEF ReadyAll, Ready, StreamInv
<1> QED BY <1>1, <1>4, <1>5 DEF Fit

LEMMA ProceedIs ==
  ASSUME NEW s, Fit(s), NEW l \in LevelSet
  PROVE  Proceed(s, "default", l) = TRUE /\ Proceed(s, "connection", l) = verbose
<1>1. Serves(s.loggers["default"].typed, creatable, TRUE)
  BY DEF Fit, ReadyAll, Ready
<1>2. Serves(s.loggers["connection"].typed, creatable, verbose)
  BY DEF Fit, ReadyAll, Ready
<1> QED BY <1>1, <1>2, Zenon DEF Serves, Proceed

LEMMA OpenedFits ==
  ASSUME creatable \in BOOLEAN
  PROVE  StreamInv(Opened(creatable), <<>>, <<>>)
<1>1. <<>> \in Seq(LineRecords) /\ <<>> \o <<>> = <<>> /\ Begins(<<>>, <<>>)
  BY EmptySeq DEF Begins
<1>2. creatable => Opened(creatable) = OneHandle(<<>>, FALSE)
  BY DEF Opened, OneHandle
<1>3. ~creatable => Opened(creatable) = Opened(FALSE)
  BY DEF Opened
<1> QED BY <1>1, <1>2, <1>3 DEF StreamInv

LEMMA LogBegins ==
  ASSUME LogInit
  PROVE  LogInv
<1>1. Cardinality(Heard(screen)) = 0 /\ lines = 0 /\ informed = 0
  BY HeardFirst DEF LogInit
<1>2. pc = "static" /\ verbose \in BOOLEAN /\ creatable \in BOOLEAN /\ full \in BOOLEAN
  BY Zenon DEF LogInit
<1>3. CountInv
  <2>1. outages \in 0..MaxOutages /\ lines \in 0..MaxLines /\ informed \in 0..lines
    BY LoggingAssumption DEF LogInit
  <2> QED BY <1>2, <2>1, Zenon DEF CountInv, Starting
<1>4. ConfInv /\ BeginInv
  BY DEF LogInit, ConfInv, BeginInv, Starting
<1>5. RunInv
  BY <1>1, <1>2 DEF RunInv, Starting
<1> QED BY <1>3, <1>4, <1>5 DEF LogInv

(* Until the loop nothing is on the screen.                                *)
LEMMA StillSilent ==
  ASSUME LogInv, pc \in Starting, UNCHANGED <<verbose, screen, informed>>
  PROVE  (Cardinality(Heard(screen)) = IF verbose THEN informed ELSE 0)'
<1> QED BY DEF LogInv, RunInv, Heard

LEMMA StorageStep ==
  ASSUME LogInv, Storage
  PROVE  LogInv'
<1> USE DEF Starting
<1>1. /\ pc = "static" /\ pc' = "main" /\ creatable \in BOOLEAN
      /\ UNCHANGED <<verbose, creatable, logConf, full, outages, file, screen, informed, lines>>
  BY DEF Storage, LogInv, CountInv
<1>2. /\ streams' = Opened(creatable) /\ DOMAIN loggers' = {"default", "performance"}
      /\ Ready(loggers'["default"], TRUE)
  BY <1>1, FirstIs DEF Storage
<1>3. CountInv' /\ ConfInv'
  BY <1>1 DEF LogInv, CountInv, ConfInv
<1>4. Ready(loggers["default"], TRUE)'
  BY <1>1, <1>2 DEF Ready
<1>5. BeginInv'
  BY <1>1, <1>2, <1>4 DEF LogInv, BeginInv
<1>6. RunInv'
  <2>1. (Cardinality(Heard(screen)) = IF verbose THEN informed ELSE 0)'
    BY <1>1, StillSilent
  <2> QED BY <1>1, <2>1 DEF RunInv
<1> QED BY <1>3, <1>5, <1>6 DEF LogInv

LEMMA SetConfStep ==
  ASSUME LogInv, SetConf
  PROVE  LogInv'
<1> USE DEF Starting
<1>1. /\ pc \in {"main", "format", "enabled"}
      /\ pc = "main" => pc' = "format" /\ logConf' = SetToDefault(logConf)
      /\ pc = "format" =>
           pc' = "enabled" /\ logConf' = SetLevel(logConf, "Info", "Format", "connection")
      /\ pc = "enabled" =>
           pc' = "logger" /\ logConf' = SetLevel(logConf, "Global", "Enabled", verbose)
      /\ verbose \in BOOLEAN
      /\ UNCHANGED <<verbose, creatable, loggers, streams, full, outages, file, screen, informed,
                     lines>>
  BY DEF SetConf, ConfSteps, LogInv, CountInv
<1>2. pc' \in {"format", "enabled", "logger"}
  BY <1>1
<1>3. CountInv'
  BY <1>1 DEF LogInv, CountInv
<1>4. ConfInv'
  <2>1. CASE pc = "main"
    <3>1. IsConf(logConf', TRUE)
      BY <1>1, <2>1, DefaultIs DEF LogInv, ConfInv
    <3> QED BY <1>1, <2>1, <3>1 DEF ConfInv, IsConf, Values
  <2>2. CASE pc = "format"
    <3>1. IsConf(logConf', TRUE)
      BY <1>1, <2>2, FormatSet DEF LogInv, ConfInv
    <3> QED BY <1>1, <2>2, <3>1 DEF ConfInv, IsConf, Values
  <2>3. CASE pc = "enabled"
    <3>1. IsConf(logConf', verbose)
      BY <1>1, <2>3, EnabledSet DEF LogInv, ConfInv
    <3> QED BY <1>1, <2>3, <3>1 DEF ConfInv, IsConf, Values
  <2> QED BY <1>1, <2>1, <2>2, <2>3
<1>5. BeginInv'
  BY <1>1, <1>2 DEF LogInv, BeginInv, Ready
<1>6. RunInv'
  <2>1. (Cardinality(Heard(screen)) = IF verbose THEN informed ELSE 0)'
    BY <1>1, StillSilent
  <2> QED BY <1>2, <2>1 DEF RunInv
<1> QED BY <1>3, <1>4, <1>5, <1>6 DEF LogInv

LEMMA GetLoggerStep ==
  ASSUME LogInv, GetLogger
  PROVE  LogInv'
<1> USE DEF Starting
<1> DEFINE n == NewLogger(streams, creatable)
<1>1. /\ pc = "logger" /\ pc' = "reconfigure" /\ creatable \in BOOLEAN
      /\ loggers' = Registered(loggers, "connection", n.logger) /\ streams' = n.streams
      /\ UNCHANGED <<verbose, creatable, logConf, full, outages, file, screen, informed, lines>>
  BY DEF GetLogger, LogInv, CountInv
<1>2. /\ streams = Opened(creatable) /\ Ready(loggers["default"], TRUE)
      /\ DOMAIN loggers = {"default", "performance"}
  BY <1>1 DEF LogInv, BeginInv
<1>3. /\ n.streams = Opened(creatable) /\ n.logger.conf = DefaultConfiguration
      /\ IsConf(DefaultConfiguration, TRUE)
  BY <1>1, <1>2, NewIs
<1> HIDE DEF n
<1>4. /\ DOMAIN loggers' = {"default", "performance", "connection"}
      /\ loggers'["connection"] = n.logger /\ loggers'["default"] = loggers["default"]
  BY <1>1, <1>2 DEF Registered
<1>5. CountInv' /\ ConfInv'
  BY <1>1 DEF LogInv, CountInv, ConfInv, IsConf, Values
<1>6. Ready(loggers["default"], TRUE)'
  BY <1>1, <1>2, <1>4 DEF Ready
<1>7. IsConf(loggers["connection"].conf, TRUE)'
  <2>1. IsConf(loggers'["connection"].conf, TRUE)
    BY <1>3, <1>4
  <2> QED BY <2>1 DEF IsConf, Values
<1>8. BeginInv'
  BY <1>1, <1>2, <1>3, <1>4, <1>6, <1>7 DEF LogInv, BeginInv
<1>9. RunInv'
  <2>1. (Cardinality(Heard(screen)) = IF verbose THEN informed ELSE 0)'
    BY <1>1, StillSilent
  <2> QED BY <1>1, <2>1 DEF RunInv
<1> QED BY <1>5, <1>8, <1>9 DEF LogInv

(* The "connection" logger takes what main() has set, the switch last.     *)
LEMMA ReconfigureLoggerStep ==
  ASSUME LogInv, ReconfigureLogger
  PROVE  LogInv'
<1> USE DEF Starting
<1> DEFINE conf == SetFromBase(loggers["connection"].conf, logConf)
           n == Configured(conf, streams, creatable)
<1>1. /\ pc = "reconfigure" /\ pc' = "running" /\ creatable \in BOOLEAN /\ verbose \in BOOLEAN
      /\ loggers' = [loggers EXCEPT !["connection"] = n.logger] /\ streams' = n.streams
      /\ UNCHANGED <<verbose, creatable, logConf, full, outages, file, screen, informed, lines>>
  BY DEF ReconfigureLogger, LogInv, CountInv
<1>2. /\ streams = Opened(creatable) /\ Ready(loggers["default"], TRUE)
      /\ DOMAIN loggers = {"default", "performance", "connection"}
      /\ IsConf(loggers["connection"].conf, TRUE) /\ IsConf(logConf, verbose)
      /\ file = <<>> /\ screen = <<>>
  BY <1>1 DEF LogInv, BeginInv, ConfInv
<1>3. n.streams = Opened(creatable) /\ Ready(n.logger, verbose)
  <2>1. IsConf(conf, verbose)
    <3>1. ASSUME NEW f \in BOOLEAN, f = TRUE
          PROVE  IsConf(conf, verbose)
      <4>1. IsConf(loggers["connection"].conf, f)
        BY <1>2, <3>1
      <4> HIDE DEF conf
      <4> QED BY <1>1, <1>2, <4>1, FromBaseIs DEF conf
    <3>2. TRUE \in BOOLEAN
      OBVIOUS
    <3> QED BY <3>1, <3>2, Zenon
  <2> HIDE DEF conf
  <2> QED BY <1>1, <1>2, <2>1, ConfiguredIs DEF Ready
<1> HIDE DEF n
<1>4. /\ DOMAIN loggers' = {"default", "performance", "connection"}
      /\ loggers'["connection"] = n.logger /\ loggers'["default"] = loggers["default"]
  BY <1>1, <1>2
<1>5. CountInv' /\ ConfInv' /\ BeginInv'
  BY <1>1 DEF LogInv, CountInv, ConfInv, BeginInv
<1>6. RunInv'
  <2> DEFINE s == [Now EXCEPT !.loggers = loggers', !.streams = streams']
  <2>1. (Cardinality(Heard(screen)) = IF verbose THEN informed ELSE 0)'
    BY <1>1, StillSilent
  <2>2. /\ s.loggers = loggers' /\ s.streams = streams' /\ s.file = file' /\ s.screen = screen'
        /\ DOMAIN s = {"loggers", "streams", "file", "screen"}
    BY <1>1 DEF Now
  <2> HIDE DEF s
  <2>3. ReadyAll(s.loggers)
    BY <1>2, <1>3, <1>4, <2>2 DEF ReadyAll
  <2>4. StreamInv(s.streams, s.file, s.screen)
    <3>1. s.streams = Opened(creatable) /\ s.file = <<>> /\ s.screen = <<>>
      BY <1>1, <1>2, <1>3, <2>2
    <3> QED BY <1>1, <3>1, OpenedFits
  <2>5. Fit(s)
    <3>1. <<>> \in Seq(LineRecords)
      BY EmptySeq
    <3> QED BY <1>1, <1>2, <2>2, <2>3, <2>4, <3>1 DEF Fit
  <2>6. Fit(Now)'
    BY <1>1, <2>2, <2>5, FitNow
  <2> QED BY <1>1, <2>1, <2>6 DEF RunInv
<1> QED BY <1>5, <1>6 DEF LogInv

(* A line is written, or not.                                              *)
LEMMA WrittenIs ==
  ASSUME NEW s, Fit(s), NEW id \in {"default", "connection"}, NEW l \in LevelSet,
         lines \in 0..MaxLines, creatable \in BOOLEAN, full \in BOOLEAN
  PROVE  IF id = "default" \/ verbose
         THEN /\ Fit(Written(s, id, l)) /\ TheLine(id, l) \in LineRecords
              /\ Written(s, id, l).screen = Append(s.screen, TheLine(id, l))
         ELSE Written(s, id, l) = s
<1> DEFINE w == Written(s, id, l)
           d == Dispatch(s, id, l)
<1>1. w = IF Proceed(s, id, l) THEN d ELSE s
  BY DEF Written, LogDispatcher
<1>2. Fit(d) /\ TheLine(id, l) \in LineRecords /\ d.screen = Append(s.screen, TheLine(id, l))
  BY DispatchIs
<1> HIDE DEF w, d
<1>3. Proceed(s, "default", l) = TRUE /\ Proceed(s, "connection", l) = verbose
  BY ProceedIs
<1>4. CASE id = "default"
  <2>1. Proceed(s, id, l)
    BY <1>3, <1>4
  <2> QED BY <1>1, <1>2, <1>4, <2>1 DEF w
<1>5. CASE id = "connection"
  <2>1. Proceed(s, id, l) = verbose
    BY <1>3, <1>5
  <2> QED BY <1>1, <1>2, <1>5, <2>1 DEF w
<1> QED BY <1>4, <1>5

LEMMA InformStep ==
  ASSUME LogInv, Inform
  PROVE  LogInv'
<1> USE DEF Starting
<1> DEFINE w == Written(Now, "connection", "Info")
           line == TheLine("connection", "Info")
<1>1. /\ pc = "running" /\ pc' = "running" /\ lines < MaxLines
      /\ lines' = lines + 1 /\ informed' = informed + 1
      /\ loggers' = w.loggers /\ streams' = w.streams /\ file' = w.file /\ screen' = w.screen
      /\ UNCHANGED <<verbose, creatable, logConf, full, outages>>
  BY DEF Inform, Become
<1>2. /\ Fit(Now) /\ lines \in 0..MaxLines /\ informed \in 0..lines /\ verbose \in BOOLEAN
      /\ creatable \in BOOLEAN /\ full \in BOOLEAN
      /\ Cardinality(Heard(screen)) = IF verbose THEN informed ELSE 0
  BY <1>1 DEF LogInv, CountInv, RunInv
<1>3. IF verbose
      THEN Fit(w) /\ line \in LineRecords /\ w.screen = Append(Now.screen, line)
      ELSE w = Now
  <2>1. "Info" \in LevelSet
    BY LevelsAre
  <2> QED BY <1>2, <2>1, WrittenIs
<1>4. Now.screen = screen /\ screen \in Seq(LineRecords)
  BY <1>2 DEF Fit, Now
<1> HIDE DEF w
<1>5. CountInv' /\ ConfInv' /\ BeginInv'
  <2>1. lines' \in 0..MaxLines /\ informed' \in 0..lines'
    BY <1>1, <1>2, LoggingAssumption
  <2> QED BY <1>1, <2>1 DEF LogInv, CountInv, ConfInv, BeginInv
<1>6. Fit(Now)'
  <2>1. Fit(w)
    BY <1>2, <1>3
  <2> QED BY <1>1, <2>1, FitNow
<1>7. (Cardinality(Heard(screen)) = IF verbose THEN informed ELSE 0)'
  <2>1. CASE verbose
    <3>1. line.logger = "connection"
      BY DEF TheLine
    <3> HIDE DEF line
    <3>2. Cardinality(Heard(screen')) = informed + 1
      BY <1>1, <1>2, <1>3, <1>4, <2>1, <3>1, HeardAfter
    <3> QED BY <1>1, <2>1, <3>2 DEF Heard
  <2>2. CASE ~verbose
    <3>1. screen' = screen
      BY <1>1, <1>3, <1>4, <2>2
    <3> QED BY <1>1, <1>2, <2>2, <3>1 DEF Heard
  <2> QED BY <2>1, <2>2
<1> QED BY <1>1, <1>5, <1>6, <1>7 DEF LogInv, RunInv

(* A fatal line is dispatched, and the throw after it is never reached.    *)
LEMMA StandingByStep ==
  ASSUME LogInv, StandingByMessage
  PROVE  LogInv'
<1> USE DEF Starting
<1> DEFINE d == Dispatch(Now, "default", "Fatal")
           w == Written(d, "default", "Warning")
           fatal == TheLine("default", "Fatal")
           warning == TheLine("default", "Warning")
<1>1. pc = "running" /\ lines < MaxLines
  BY DEF StandingByMessage
<1>2. /\ Fit(Now) /\ lines \in 0..MaxLines /\ informed \in 0..lines /\ verbose \in BOOLEAN
      /\ creatable \in BOOLEAN /\ full \in BOOLEAN
      /\ Cardinality(Heard(screen)) = IF verbose THEN informed ELSE 0
  BY <1>1 DEF LogInv, CountInv, RunInv
<1>3. "Fatal" \in LevelSet /\ "Warning" \in LevelSet
  BY LevelsAre
<1>4. Proceed(Now, "default", "Fatal")
  BY <1>2, <1>3, ProceedIs
<1>5. /\ pc' = "aborted" /\ lines' = lines + 1 /\ informed' = informed
      /\ loggers' = w.loggers /\ streams' = w.streams /\ file' = w.file /\ screen' = w.screen
      /\ UNCHANGED <<verbose, creatable, logConf, full, outages>>
  BY <1>4 DEF StandingByMessage, Become
<1>6. Fit(d) /\ fatal \in LineRecords /\ d.screen = Append(Now.screen, fatal)
  BY <1>2, <1>3, DispatchIs
<1> HIDE DEF d
<1>7. Fit(w) /\ warning \in LineRecords /\ w.screen = Append(d.screen, warning)
  BY <1>2, <1>3, <1>6, WrittenIs
<1> HIDE DEF w
<1>8. Now.screen = screen /\ screen \in Seq(LineRecords)
  BY <1>2 DEF Fit, Now
<1>9. CountInv' /\ ConfInv' /\ BeginInv'
  <2>1. lines' \in 0..MaxLines /\ informed' \in 0..lines'
    BY <1>1, <1>2, <1>5, LoggingAssumption
  <2> QED BY <1>5, <2>1 DEF LogInv, CountInv, ConfInv, BeginInv
<1>10. Fit(Now)'
  BY <1>5, <1>7, FitNow
<1>11. /\ fatal.logger = "default" /\ warning.logger = "default" /\ fatal.level = "Fatal"
  BY DEF TheLine
<1> HIDE DEF fatal, warning
<1>12. d.screen \in Seq(LineRecords) /\ screen' = Append(d.screen, warning)
  BY <1>5, <1>6, <1>7 DEF Fit
<1>13. (Cardinality(Heard(screen)) = IF verbose THEN informed ELSE 0)'
  <2>1. Cardinality(Heard(d.screen)) = Cardinality(Heard(screen)) + 0
    BY <1>6, <1>8, <1>11, HeardAfter
  <2>2. Cardinality(Heard(screen')) = Cardinality(Heard(d.screen)) + 0
    BY <1>7, <1>11, <1>12, HeardAfter
  <2>3. Cardinality(Heard(screen')) = IF verbose THEN informed ELSE 0
    BY <1>2, <2>1, <2>2
  <2> QED BY <1>5, <2>3 DEF Heard
<1>14. \E i \in DOMAIN screen' : screen'[i].level = "Fatal"
  <2> DEFINE k == Len(screen) + 1
  <2>1. Len(d.screen) = k /\ d.screen[k] = fatal /\ k \in Nat \ {0}
    BY <1>6, <1>8, LenProperties, AppendProperties
  <2>2. /\ Len(screen') = k + 1 /\ screen'[k] = d.screen[k]
        /\ DOMAIN screen' = 1..Len(screen')
    <3> HIDE DEF k
    <3>1. k \in 1..Len(d.screen)
      BY <2>1
    <3>2. screen' \in Seq(LineRecords)
      BY <1>7, <1>12, AppendProperties
    <3> QED BY <1>7, <1>12, <2>1, <3>1, <3>2, AppendProperties, LenProperties
  <2>3. k \in DOMAIN screen'
    BY <2>1, <2>2
  <2> QED BY <1>11, <2>1, <2>2, <2>3
<1> QED BY <1>5, <1>9, <1>10, <1>13, <1>14 DEF LogInv, RunInv

LEMMA ExitStep ==
  ASSUME LogInv, Exit
  PROVE  LogInv'
<1> USE DEF Starting
<1> DEFINE f == FoldLeft(Flushed, Now, [h \in DOMAIN streams.handles |-> h])
           s == [Now EXCEPT !.streams = f.streams, !.file = f.file]
<1>1. /\ pc = "running" /\ pc' = "ended" /\ streams' = f.streams /\ file' = f.file
      /\ UNCHANGED <<verbose, creatable, logConf, loggers, full, outages, screen, informed,
                     lines>>
  BY DEF Exit
<1>2. /\ Fit(Now) /\ creatable \in BOOLEAN /\ full \in BOOLEAN
      /\ Cardinality(Heard(screen)) = IF verbose THEN informed ELSE 0
  BY <1>1 DEF LogInv, CountInv, RunInv
<1>3. f.file \in Seq(LineRecords) /\ StreamInv(f.streams, f.file, Now.screen)
  <2>1. Now.streams = streams
    BY DEF Now
  <2> HIDE DEF Now
  <2> QED BY <1>2, <2>1, ExitIs
<1> HIDE DEF f
<1>4. /\ DOMAIN s = {"loggers", "streams", "file", "screen"} /\ s.loggers = loggers
      /\ s.streams = streams' /\ s.file = file' /\ s.screen = screen
      /\ Now.screen = screen /\ Now.loggers = loggers
  BY <1>1 DEF Now
<1> HIDE DEF s
<1>5. Fit(s)
  BY <1>1, <1>2, <1>3, <1>4 DEF Fit
<1>6. Fit(Now)'
  BY <1>1, <1>4, <1>5, FitNow
<1>7. CountInv' /\ ConfInv' /\ BeginInv'
  BY <1>1 DEF LogInv, CountInv, ConfInv, BeginInv
<1>8. RunInv'
  BY <1>1, <1>2, <1>6 DEF RunInv, Heard
<1> QED BY <1>7, <1>8 DEF LogInv

(* Only how full the disk is changes.                                      *)
LEMMA DiskStep ==
  ASSUME LogInv, full' \in BOOLEAN, outages' \in 0..MaxOutages,
         UNCHANGED <<pc, verbose, creatable, logConf, loggers, streams, file, screen, informed,
                     lines>>
  PROVE  LogInv'
<1>1. CountInv'
  BY DEF LogInv, CountInv
<1>2. ConfInv' /\ BeginInv'
  BY DEF LogInv, ConfInv, BeginInv, IsConf, Values, Ready
<1>3. RunInv'
  <2>1. pc \notin Starting => Fit(Now)'
    <3>1. /\ loggers' = Now.loggers /\ streams' = Now.streams /\ file' = Now.file
          /\ screen' = Now.screen
      BY DEF Now
    <3> QED BY <3>1, FitNow DEF LogInv, RunInv
  <2> QED BY <2>1 DEF LogInv, RunInv, Heard, Starting
<1> QED BY <1>1, <1>2, <1>3 DEF LogInv

LEMMA LogStays ==
  ASSUME LogInv, [LogNext]_logVars
  PROVE  LogInv'
<1>1. CASE Storage
  BY <1>1, StorageStep
<1>2. CASE SetConf
  BY <1>2, SetConfStep
<1>3. CASE GetLogger
  BY <1>3, GetLoggerStep
<1>4. CASE ReconfigureLogger
  BY <1>4, ReconfigureLoggerStep
<1>5. CASE Inform
  BY <1>5, InformStep
<1>6. CASE StandingByMessage
  BY <1>6, StandingByStep
<1>7. CASE Exit
  BY <1>7, ExitStep
<1>8. CASE FillUp
  <2>1. full' \in BOOLEAN
    BY <1>8 DEF FillUp
  <2>2. outages' \in 0..MaxOutages
    BY <1>8, LoggingAssumption DEF FillUp, LogInv, CountInv
  <2> QED BY <1>8, <2>1, <2>2, DiskStep DEF FillUp
<1>9. CASE FreeUp
  <2>1. full' \in BOOLEAN
    BY <1>9 DEF FreeUp
  <2>2. outages' \in 0..MaxOutages
    BY <1>9 DEF FreeUp, LogInv, CountInv
  <2> QED BY <1>9, <2>1, <2>2, DiskStep DEF FreeUp
<1>10. CASE UNCHANGED logVars
  BY <1>10, DiskStep DEF logVars, LogInv, CountInv
<1> QED BY <1>1, <1>2, <1>3, <1>4, <1>5, <1>6, <1>7, <1>8, <1>9, <1>10 DEF LogNext

LEMMA LogInvariant == LogSpec => []LogInv
<1>1. LogInit => LogInv
  BY LogBegins
<1>2. LogInv /\ [LogNext]_logVars => LogInv'
  BY LogStays
<1> QED BY <1>1, <1>2, PTL DEF LogSpec

-----------------------------------------------------------------------------
(* What follows from the invariant.                                        *)
LEMMA InvFile ==
  ASSUME LogInv
  PROVE  /\ file \in Seq(LineRecords) /\ screen \in Seq(LineRecords)
         /\ IF pc = "static" THEN streams = NoStreams /\ file = <<>>
            ELSE StreamInv(streams, file, screen)
<1>1. creatable \in BOOLEAN /\ pc \in Starting \cup {"running", "aborted", "ended"}
  BY DEF LogInv, CountInv
<1>2. CASE pc \in Starting
  <2>1. file = <<>> /\ screen = <<>> /\ <<>> \in Seq(LineRecords)
    BY <1>2, EmptySeq DEF LogInv, BeginInv
  <2>2. pc # "static" => streams = Opened(creatable)
    BY <1>2 DEF LogInv, BeginInv
  <2>3. pc = "static" => streams = NoStreams
    BY DEF LogInv, BeginInv
  <2> QED BY <1>1, <2>1, <2>2, <2>3, OpenedFits
<1>3. CASE pc \notin Starting
  <2>1. Fit(Now) /\ pc # "static"
    BY <1>3 DEF LogInv, RunInv, Starting
  <2>2. Now.file = file /\ Now.screen = screen /\ Now.streams = streams
    BY DEF Now
  <2> HIDE DEF Now
  <2> QED BY <2>1, <2>2 DEF Fit
<1> QED BY <1>2, <1>3

LEMMA InvTypes ==
  ASSUME LogInv
  PROVE  LogTypeOK
<1>1. CountInv
  BY DEF LogInv
<1>2. DOMAIN loggers \subseteq {"default", "performance", "connection"}
  <2>1. CASE pc = "static"
    <3>1. loggers = <<>>
      BY <2>1 DEF LogInv, BeginInv
    <3> QED BY <3>1
  <2>2. CASE pc \in Starting \ {"static"}
    BY <2>2 DEF LogInv, BeginInv
  <2>3. CASE pc \notin Starting
    <3>1. Fit(Now) /\ Now.loggers = loggers
      BY <2>3 DEF LogInv, RunInv, Now
    <3> QED BY <3>1, Zenon DEF Fit, ReadyAll
  <2> QED BY <2>1, <2>2, <2>3 DEF Starting
<1>3. /\ \A i \in DOMAIN screen : screen[i] \in LineRecords
      /\ \A i \in DOMAIN file : file[i] \in LineRecords
  <2>1. file \in Seq(LineRecords) /\ screen \in Seq(LineRecords)
    BY InvFile
  <2> QED BY <2>1, ElementOfSeq, LenProperties
<1>4. \A h \in DOMAIN streams.handles : streams.handles[h].bad \in BOOLEAN
  <2>1. CASE pc = "static"
    <3>1. streams.handles = <<>>
      BY <2>1, InvFile DEF NoStreams
    <3> QED BY <3>1
  <2>2. CASE pc # "static"
    <3>1. StreamInv(streams, file, screen)
      BY <2>2, InvFile
    <3>2. CASE creatable
      <4>1. PICK b \in Seq(LineRecords), bad \in BOOLEAN : streams = OneHandle(b, bad)
        BY <3>1, <3>2 DEF StreamInv
      <4>2. /\ OneHandle(b, bad).handles[1].bad = bad
            /\ DOMAIN OneHandle(b, bad).handles = {1}
        BY OneHandleIs, Zenon
      <4> QED BY <4>1, <4>2
    <3>3. CASE ~creatable
      <4>1. streams.handles = <<>>
        BY <3>1, <3>3 DEF StreamInv, Opened
      <4> QED BY <4>1
    <3> QED BY <3>2, <3>3
  <2> QED BY <2>1, <2>2
<1> QED BY <1>1, <1>2, <1>3, <1>4 DEF LogTypeOK, CountInv, Starting

LEMMA InvFollows ==
  ASSUME LogInv
  PROVE  FileFollowsScreen
<1>1. creatable \in BOOLEAN
  BY DEF LogInv, CountInv
<1>2. CASE pc # "static"
  BY <1>1, <1>2, InvFile, AllHanded
<1>3. CASE pc = "static"
  <2>1. [h \in DOMAIN streams.handles |-> h] = <<>>
    <3>1. streams.handles = <<>>
      BY <1>3, InvFile DEF NoStreams
    <3>2. <<>> = [h \in {} |-> h]
      OBVIOUS
    <3> QED BY <3>1, <3>2
  <2>2. file = <<>> /\ screen \in Seq(LineRecords)
    BY <1>3, InvFile
  <2> QED BY <2>1, <2>2, NoneHanded
<1> QED BY <1>2, <1>3

LEMMA InvAbort ==
  ASSUME LogInv
  PROVE  AbortIsOnRecord
<1>1. pc # "threw"
  BY DEF LogInv, CountInv, Starting
<1>2. ASSUME pc = "aborted", creatable,
             \A h \in DOMAIN streams.handles : ~streams.handles[h].bad
      PROVE  \E i \in DOMAIN file : file[i].level = "Fatal"
  <2>1. StreamInv(streams, file, screen) /\ \E i \in DOMAIN screen : screen[i].level = "Fatal"
    BY <1>2, InvFile DEF LogInv, RunInv
  <2>2. PICK b \in Seq(LineRecords), bad \in BOOLEAN :
          streams = OneHandle(b, bad) /\ (~bad => file = screen)
    BY <1>2, <2>1 DEF StreamInv
  <2>3. OneHandle(b, bad).handles[1].bad = bad /\ DOMAIN OneHandle(b, bad).handles = {1}
    BY OneHandleIs, Zenon
  <2>4. ~bad
    BY <1>2, <2>2, <2>3
  <2> QED BY <2>1, <2>2, <2>4
<1> QED BY <1>1, <1>2 DEF AbortIsOnRecord

-----------------------------------------------------------------------------
(* main() and its loggers.                                                 *)
LEMMA MainLogInvariant == MainSpec => []LogInv
<1> QED BY MainImplements, LogInvariant, PTL

(* The loggers are configured by the flag that is among the arguments.     *)
LEMMA FlagInvariant == MainSpec => [](verbose = Verbose)
<1>1. MainInit => verbose = Verbose
  BY DEF MainInit
<1>2. verbose = Verbose /\ [MainNext]_mainVars => (verbose = Verbose)'
  <2> SUFFICES ASSUME verbose = Verbose, [MainNext]_mainVars
               PROVE  (verbose = Verbose)'
    OBVIOUS
  <2>1. [StartupNext]_startupVars /\ [LogNext]_logVars
    BY PartSteps
  <2>2. UNCHANGED <<program, args>>
    BY <2>1 DEF startupVars, StartupNext, PrintUsage, RefuseParameter, AcceptParameters,
      OpenSocket, SocketFails, Configure, GetInstance, GetInstanceThrows
  <2>3. verbose' = verbose
    BY <2>1 DEF logVars, LogNext, Storage, SetConf, GetLogger, ReconfigureLogger, Inform,
      StandingByMessage, Become, Exit, FillUp, FreeUp
  <2> QED BY <2>2, <2>3, SameCall
<1> QED BY <1>1, <1>2, PTL DEF MainSpec

(* The variables of main(), of its loggers and of the log file keep their  *)
(* types: whatever the settings of the levels are made of, a line shows    *)
(* the name of its own level.                                              *)
THEOREM MainTypeCorrect == MainSpec => []MainTypeOK
<1>1. StartupTypeOK /\ LogInv => MainTypeOK
  BY InvTypes DEF MainTypeOK
<1> QED BY <1>1, StartupTypeCorrect, MainLogInvariant, PTL

(* For any number of arguments and of lines: the connections' lines are on *)
(* the screen, all of them, if -v was among the arguments, and none is if  *)
(* it was not.                                                             *)
THEOREM VerboseCorrect == MainSpec => []VerboseObeyed
<1>1. LogInv /\ StartInv /\ verbose = Verbose => VerboseObeyed
  <2> SUFFICES ASSUME LogInv, StartInv, verbose = Verbose PROVE VerboseObeyed
    OBVIOUS
  <2>1. Cardinality(Heard(screen)) = IF Verbose THEN informed ELSE 0
    BY DEF LogInv, RunInv
  <2>2. Verbose <=> \E n \in DOMAIN args : args[n] = Flag
    BY FlagFound, LenProperties DEF StartInv
  <2> QED BY <2>1, <2>2 DEF VerboseObeyed, Heard
<1> QED BY <1>1, MainLogInvariant, StartInvariant, FlagInvariant, PTL

(* What is in the log file, with what its stream still holds, is always    *)
(* how the screen begins, however often and when the disk fills up and is  *)
(* freed again.                                                            *)
THEOREM FileFollowsCorrect == MainSpec => []FileFollowsScreen
<1>1. LogInv => FileFollowsScreen
  BY InvFollows
<1> QED BY <1>1, MainLogInvariant, PTL

(* The throw after LOG(FATAL) is never reached, and the file says why the  *)
(* server aborted if it could be opened and written.                       *)
THEOREM AbortCorrect == MainSpec => []AbortIsOnRecord
<1>1. LogInv => AbortIsOnRecord
  BY InvAbort
<1> QED BY <1>1, MainLogInvariant, PTL
=============================================================================
