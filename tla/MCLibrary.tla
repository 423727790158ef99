------------------------------ MODULE MCLibrary ------------------------------
(***************************************************************************)
(* The parts of the library that share no state, each on its own: the      *)
(* initial state chooses a part, and only that one moves.  Functions       *)
(* without state are a part too, whose step is one call.                   *)
(***************************************************************************)
EXTENDS TimeOfDay, Caches, Registry, Formatter, MulDiv, BusySleep, SystemCalls,
        DebugLog, Exceptions, Profiler, Startup, Stack, Interconnect, Lights,
        FileDescriptors

CONSTANTS one, two, main, isr, NoCall    \* two characters or program places, two functions

(* Values of the parts' constants.                                         *)
Levels == -1 .. 3
Names == {<<Slash, one>>, <<Slash, one, two>>, <<Slash>>, <<Slash, one, Slash>>, <<one, two>>}
Paths == UNION {[1 .. n -> {one, two, Slash}] : n \in 0 .. 4}
Programs == UNION {[1 .. n -> {"plain", "mul", "trap", "illegal"}] : n \in 1 .. 3}
BuiltIn == {{"muldiv", "trap", "api"}, {"muldiv"}, {}}
Arcs == {<<main, one>>, <<main, two>>, <<isr, one>>}
Calls == [p \in {"program", "interrupt"} |-> IF p = "program" THEN 2 ELSE 1]
Constructors == <<one, two>>
Characters == [v \in 0 .. 16 ^ Digits - 1 |-> IF v % 2 = 0 THEN "a" ELSE "%"]
Texts == [v \in 0 .. 16 ^ Digits - 1 |-> IF v % 3 = 0 THEN <<>> ELSE <<"%", "x">>]

(* Inputs of the calls.                                                    *)
Echoes == UNION {[1 .. n -> {"a", "^D"}] : n \in 0 .. 4}
Formats == UNION {[1 .. n -> {"%", "x", "c", "s", "a"}] : n \in 0 .. 5}
Drivers ==
  LET result == {NoOperation, -5, 0, 2}
  IN  [read : result, write : result, lseek : result, fstat : {NoOperation, -5, 0}, ioctl : {NoOperation, -5, 0},
       st_mode : {"_IFCHR", "_IFREG"}]

VARIABLES part, call

vars == <<part, call, clockvars, cachevars, registryvars, muldivvars, logvars,
          exceptionvars, profilervars, startupvars, stackvars, busvars, lightsvars,
          filesvars>>

Still(p) ==
  /\ IF p = "time" THEN TRUE ELSE UNCHANGED clockvars
  /\ IF p = "caches" THEN TRUE ELSE UNCHANGED cachevars
  /\ IF p = "registry" THEN TRUE ELSE UNCHANGED registryvars
  /\ IF p = "muldiv" THEN TRUE ELSE UNCHANGED muldivvars
  /\ IF p = "log" THEN TRUE ELSE UNCHANGED logvars
  /\ IF p = "exceptions" THEN TRUE ELSE UNCHANGED exceptionvars
  /\ IF p = "profiler" THEN TRUE ELSE UNCHANGED profilervars
  /\ IF p = "startup" THEN TRUE ELSE UNCHANGED startupvars
  /\ IF p = "stack" THEN TRUE ELSE UNCHANGED stackvars
  /\ IF p = "bus" THEN TRUE ELSE UNCHANGED busvars
  /\ IF p = "lights" THEN TRUE ELSE UNCHANGED lightsvars
  /\ IF p = "files" THEN TRUE ELSE UNCHANGED filesvars
  /\ IF p = "calls" THEN TRUE ELSE UNCHANGED call

(* A part that does not move starts in one of its initial states.          *)
LibraryInit ==
  /\ part \in {"time", "caches", "registry", "muldiv", "log", "exceptions",
               "profiler", "startup", "stack", "bus", "lights", "files",
               "calls"}
  /\ call = NoCall
  /\ ClockInit /\ RegistryInit
  /\ CacheInit /\ (part = "caches" \/ flushda)
  /\ MulDivInit /\ (part = "muldiv" \/ (op = "mul" /\ rA = 0 /\ rB = 0))
  /\ LogInit /\ (part = "log" \/ level = 0)
  /\ ExceptionInit
  /\ part = "exceptions"
       \/ (program = <<"plain">> /\ linked = {} /\ ~alt_instruction_exception_handler)
  /\ ProfilerInit /\ (part = "profiler" \/ text = CHOOSE t \in TextBytes : TRUE)
  /\ StartupInit /\ (part = "startup" \/ build = CHOOSE b0 \in Build : TRUE)
  /\ StackInit /\ (part = "stack" \/ ALT_EXCEPTION_STACK)
  /\ BusInit /\ LightsInit /\ FilesInit

Cases ==
  \/ \E us \in 0 .. Unsigned - 1 : call' = <<"sleep", us>>
  \/ \E dev \in Drivers, mode \in {"O_RDONLY", "O_WRONLY", "O_RDWR"}, file \in -1 .. 2 :
       call' = <<"file", dev, mode, file>>
  \/ \E fmt \in Formats, v \in {0, 1, 9, 160, 255} \cap 0 .. Word - 1, w \in {16, 45} \cap 0 .. Word - 1 :
       call' = <<"printf", fmt, <<v, w, v, w, v, w>> >>
  \/ \E v \in 0 .. Word - 1, letter \in {"d", "u", "o", "x"}, zero \in BOOLEAN,
        width \in {0, 1, 4, 10} \cap 0 .. Word \div 2 - 1 :
       call' = <<"integer", v, letter, zero, width>>
  \/ \E word \in 0 .. 2 ^ 13 - 1 : call' = <<"address", 4 * word>>
  \/ \E line \in Echoes  : \E echo \in 1 .. 3 : call' = <<"echo", line, echo>>

LibraryNext ==
  /\ UNCHANGED part
  /\ Still(part)
  /\ \/ part = "time" /\ ClockNext
     \/ part = "caches" /\ CacheNext
     \/ part = "registry" /\ RegistryNext
     \/ part = "muldiv" /\ MulDivNext
     \/ part = "log" /\ LogNext
     \/ part = "exceptions" /\ ExceptionNext
     \/ part = "profiler" /\ ProfilerNext
     \/ part = "startup" /\ StartupNext
     \/ part = "stack" /\ StackNext
     \/ part = "bus" /\ BusNext
     \/ part = "lights" /\ LightsNext
     \/ part = "files" /\ FilesNext
     \/ part = "calls" /\ call = NoCall /\ Cases

LibrarySpec == LibraryInit /\ [][LibraryNext]_vars
-----------------------------------------------------------------------------
(* gettimeofday() returns the time last set plus what has passed since.    *)
TimeKept == part = "time" => ClockTypeOK /\ TimeAgrees

(* No flush leaves a line of its region in the cache or throws away lines  *)
(* that are not near it, none comes back while the region is used          *)
(* uncached, and flash that was programmed is read as it is.               *)
CachesKept ==
  part = "caches" => CacheTypeOK /\ FlushReaches /\ DiscardIsNear /\ UncachedStaysOut
                       /\ FlashIsFresh

(* A look-up finds the newest entry with the name, or on the way.          *)
NamesFound == part = "registry" => FindsExactly /\ FindsMount

(* Emulated instructions store what they are defined to.                   *)
EmulationKept == part = "muldiv" => EmulationIsExact /\ DivisionKeepsDividend

(* The debug log loses only what an interrupt makes it lose, keeps the     *)
(* handlers' messages whole and the heartbeat in step.                     *)
LogKept == part = "log" => LossOnlyByInterrupt /\ HandlerMessagesWhole /\ HeartbeatPeriod

(* Exceptions lose no instruction, execute none twice and do not interrupt *)
(* a critical section.                                                     *)
ExceptionsKept ==
  part = "exceptions" => ExecutedOnce /\ HangIsUnhandled /\ CriticalUninterrupted

(* The profiler counts the program's calls, starts its sampler, twice only *)
(* where an interrupt makes it, and shares the heap with the program.      *)
ProfileKept == part = "profiler" => CallsCounted /\ SamplerStarts /\ HeapBlocksApart

(* main() finds the library and the devices as it needs them, after any    *)
(* number of resets, and the program ends as it was built to.              *)
StartupKept ==
  part = "startup" => MainFindsAll /\ StreamsBeforeConstructors /\ InterruptsFindHandler
                        /\ DestroyedAtCleanExit

(* Heap and stack meet only with a report, as long as what is allocated is *)
(* aligned, and nothing is stopped that had room; the masters share a      *)
(* slave in whole commands and in turn, the LEDs follow the switches, and  *)
(* every address leads to the device that has it.                          *)
SystemKept ==
  /\ part = "stack" => HeapMeetsNoStack /\ LimitInHeap
  /\ part = "bus" => GrantsCyclicFirst /\ CommandsWhole /\ FairShares
  /\ part = "lights" => LedsFollow
  /\ part = "calls" /\ call # NoCall /\ call[1] = "address" => RoutedRight(call[2])

(* The functions that print return what they should, for every call.       *)
PrintsRight ==
  part = "calls" /\ call # NoCall =>
    CASE call[1] = "printf"  -> PrintfsAgree(call[2], call[3])
      [] call[1] = "integer" -> IntegerReadsBack(call[2], call[3], call[4], call[5])
      [] call[1] = "echo"    -> EchoFits(call[2], call[3])
      [] OTHER               -> TRUE

(* The system calls without state do what they should, for every call.     *)
CallsRight ==
  part = "calls" /\ call # NoCall =>
    CASE call[1] = "sleep" -> SleepsNearly(call[2])
      [] call[1] = "file"  ->
           LET dev == call[2]
               table == [file \in 0 .. 2 |-> [dev |-> dev, mode |-> call[3]]]
           IN  /\ dev.read # NoOperation /\ dev.write # NoOperation => DirectAgrees(dev, call[4])
               /\ TerminalIsCharacterDevice(table, call[4])
               /\ FailureHasReason(table, call[4])
               /\ UnopenedIsRefused
      [] OTHER -> TRUE
=============================================================================
