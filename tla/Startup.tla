-------------------------------- MODULE Startup --------------------------------
(***************************************************************************)
(* From reset to main() and from there to _exit(): the start-up code in    *)
(* crt0.S, alt_load(), alt_main() and what they call, for the ways the BSP *)
(* can be built.  The processor may be reset again at any moment; a reset  *)
(* clears its registers and those of the devices but not the memory, so    *)
(* all that the program relies on must be made anew each time.  Interrupts *)
(* are taken as soon as they are enabled, which is before the devices are  *)
(* initialised.                                                            *)
(***************************************************************************)
EXTENDS Integers, Sequences

CONSTANTS
  Ctors,        \* __CTOR_LIST__: the constructors, in the order of the list
  Garbage,      \* contents of memory before anything was put there
  MaxResets     \* bound: resets after the first

(* exit "never": ALT_NO_EXIT; "bare": ALT_NO_CLEAN_EXIT, exit() is _exit().*)
(* small: the polled driver, which has nothing to initialise.              *)
Build == [exit : {"clean", "bare", "never"}, cpp : BOOLEAN, direct : BOOLEAN, small : BOOLEAN]

VARIABLES
  build,
  phase,               \* what is done next
  resets,
  rwdata, bss,         \* the two sections of variables
  exceptions,          \* the section with the exception code
  insync,              \* the caches hold what memory does
  pie, ienable,        \* interrupts enabled; the UART's interrupt enabled
  ie                   \* the UART may ask for an interrupt

startupvars == <<build, phase, resets, rwdata, bss, exceptions, insync, pie, ienable, ie>>

(* .rwdata as it is linked.  The three standard streams lead nowhere; the  *)
(* driver's state has its default timeout.                                 *)
Image == [alt_dev_list |-> <<>>, alt_fd_list |-> [file \in 0 .. 2 |-> "null"],
          driver |-> "initial"]

(* What the program has in .bss: the table of handlers, the functions      *)
(* atexit() was given, and its own objects.                                *)
Zero == [alt_irq |-> FALSE, atexit |-> FALSE, built |-> <<>>, destroyed |-> <<>>]

(* What they may hold from then on; what was there before is nothing of it.*)
RwData == [alt_dev_list : Seq({"uart"}), alt_fd_list : [0 .. 2 -> {"null", "uart"}],
           driver : {"initial", "running", "used"}]
Bss == LET list == Seq({Ctors[i] : i \in DOMAIN Ctors})
       IN  [alt_irq : BOOLEAN, atexit : BOOLEAN, built : list, destroyed : list]

ASSUME StartupAssumption ==
  /\ Ctors \in Seq({Ctors[i] : i \in DOMAIN Ctors}) /\ MaxResets \in Nat
  /\ Garbage \notin RwData \cup Bss

Reversed(s) == [i \in DOMAIN s |-> s[Len(s) + 1 - i]]

(* The order of the calls.  (Mutant: the streams before the devices.)      *)
If(condition, name) == IF condition THEN <<name>> ELSE <<>>

DriverInit(b) == IF b.small THEN <<>> ELSE <<"device", "register", "alarm">>

Ending(b) ==
  If(b.cpp, "_do_ctors") \o If(b.cpp /\ b.exit = "clean", "atexit") \o <<"main">>
  \o (IF b.exit = "never" THEN <<>> ELSE <<"close", "exit">>) \o <<"stopped">>

OrderRedirectsFirst(b) ==
  <<"_start", "bss", "alt_load", "alt_irq_init">> \o If(~b.direct, "alt_io_redirect")
  \o DriverInit(b) \o If(~b.direct, "alt_dev_reg") \o Ending(b)

Order(b) ==
  <<"_start", "bss", "alt_load", "alt_irq_init">> \o DriverInit(b)
  \o If(~b.direct, "alt_dev_reg") \o If(~b.direct, "alt_io_redirect") \o Ending(b)

At(s) ==
  LET order == Order(build)
      i == CHOOSE k \in DOMAIN order : order[k] = phase
  IN  phase = s /\ s # "stopped" /\ phase' = order[i + 1]
-----------------------------------------------------------------------------
StartupInit ==
  /\ build \in Build
  /\ phase = "_start" /\ resets = 0
  /\ rwdata = Garbage /\ bss = Garbage /\ exceptions = Garbage
  /\ insync = FALSE
  /\ pie = FALSE /\ ienable = FALSE /\ ie = FALSE

Reset ==
  /\ resets < MaxResets
  /\ resets' = resets + 1
  /\ phase' = "_start"
  /\ insync' = FALSE
  /\ pie' = FALSE /\ ienable' = FALSE /\ ie' = FALSE
  /\ UNCHANGED <<build, rwdata, bss, exceptions>>

(* __reset and _start: both caches are emptied.                            *)
Start ==
  /\ At("_start")
  /\ insync' = TRUE
  /\ UNCHANGED <<build, resets, rwdata, bss, exceptions, pie, ienable, ie>>

ClearBss ==
  /\ At("bss")
  /\ bss' = Zero
  /\ UNCHANGED <<build, resets, rwdata, exceptions, insync, pie, ienable, ie>>

(* The sections are copied to where they are used, then the caches are     *)
(* flushed.  (Mutant: variables are taken to be where they are used.)      *)
alt_loadInPlace ==
  /\ At("alt_load")
  /\ rwdata' = IF rwdata = Garbage THEN Image ELSE rwdata
  /\ exceptions' = "loaded"
  /\ insync' = TRUE
  /\ UNCHANGED <<build, resets, bss, pie, ienable, ie>>

alt_load ==
  /\ At("alt_load")
  /\ rwdata' = Image
  /\ exceptions' = "loaded"
  /\ insync' = TRUE
  /\ UNCHANGED <<build, resets, bss, pie, ienable, ie>>

(* ALT_OS_INIT() and ALT_SEM_CREATE(), which follow, are empty.            *)
alt_irq_init ==
  /\ At("alt_irq_init")
  /\ ienable' = FALSE /\ pie' = TRUE
  /\ UNCHANGED <<build, resets, rwdata, bss, exceptions, insync, ie>>

(* alt_sys_init(): altera_avalon_jtag_uart_init() enables the interrupt in *)
(* the device, registers the handler, which enables it in the processor,   *)
(* and starts the alarm, which fails as there is no system clock: the      *)
(* timeout becomes infinite.                                               *)
InitDevice ==
  /\ At("device")
  /\ ie' = TRUE
  /\ UNCHANGED <<build, resets, rwdata, bss, exceptions, insync, pie, ienable>>

InitRegister ==
  /\ At("register")
  /\ bss' = [bss EXCEPT !.alt_irq = TRUE]
  /\ ienable' = TRUE
  /\ UNCHANGED <<build, resets, rwdata, exceptions, insync, pie, ie>>

InitAlarm ==
  /\ At("alarm")
  /\ rwdata' = [rwdata EXCEPT !.driver = "running"]
  /\ UNCHANGED <<build, resets, bss, exceptions, insync, pie, ienable, ie>>

alt_dev_reg ==
  /\ At("alt_dev_reg")
  /\ rwdata' = [rwdata EXCEPT !.alt_dev_list = <<"uart">> \o @]
  /\ UNCHANGED <<build, resets, bss, exceptions, insync, pie, ienable, ie>>

(* A stream stays as it is if its device cannot be opened.                 *)
alt_io_redirect ==
  /\ At("alt_io_redirect")
  /\ rwdata' = IF rwdata.alt_dev_list = <<>> THEN rwdata
               ELSE [rwdata EXCEPT !.alt_fd_list = [file \in 0 .. 2 |-> Head(rwdata.alt_dev_list)]]
  /\ UNCHANGED <<build, resets, bss, exceptions, insync, pie, ienable, ie>>

(* From the end of the list to its start.                                  *)
do_ctors ==
  /\ At("_do_ctors")
  /\ bss' = [bss EXCEPT !.built = @ \o Reversed(Ctors)]
  /\ UNCHANGED <<build, resets, rwdata, exceptions, insync, pie, ienable, ie>>

atexit ==
  /\ At("atexit")
  /\ bss' = [bss EXCEPT !.atexit = TRUE]
  /\ UNCHANGED <<build, resets, rwdata, exceptions, insync, pie, ienable, ie>>

(* main() returns, or it calls exit().                                     *)
Return ==
  /\ At("main")
  /\ UNCHANGED <<build, resets, rwdata, bss, exceptions, insync, pie, ienable, ie>>

CallExit ==
  /\ phase = "main" /\ build.exit # "never"
  /\ phase' = "exit"
  /\ UNCHANGED <<build, resets, rwdata, bss, exceptions, insync, pie, ienable, ie>>

(* close(STDOUT_FILENO) waits for the output; the descriptor stays.        *)
Close ==
  /\ At("close")
  /\ UNCHANGED <<build, resets, rwdata, bss, exceptions, insync, pie, ienable, ie>>

(* exit() calls what atexit() was given, then _exit(), which tells the     *)
(* simulator and loops.  (Mutant: ALT_NO_CLEAN_EXIT is not looked at.)     *)
Destroyed(b) == IF bss.atexit THEN Reversed(Ctors) ELSE <<>>

alt_exitAlways ==
  /\ At("exit")
  /\ bss' = [bss EXCEPT !.destroyed = @ \o Reversed(Ctors)]
  /\ UNCHANGED <<build, resets, rwdata, exceptions, insync, pie, ienable, ie>>

alt_exit ==
  /\ At("exit")
  /\ bss' = [bss EXCEPT !.destroyed = @ \o Destroyed(build)]
  /\ UNCHANGED <<build, resets, rwdata, exceptions, insync, pie, ienable, ie>>

(* The UART's handler changes the state of its driver.                     *)
Interrupt ==
  /\ pie /\ ienable /\ ie
  /\ rwdata' = [rwdata EXCEPT !.driver = IF @ = "initial" THEN @ ELSE "used"]
  /\ UNCHANGED <<build, phase, resets, bss, exceptions, insync, pie, ienable, ie>>

StartupNext ==
  \/ Reset \/ Start \/ ClearBss \/ alt_load \/ alt_irq_init
  \/ InitDevice \/ InitRegister \/ InitAlarm \/ alt_dev_reg \/ alt_io_redirect
  \/ do_ctors \/ atexit \/ Return \/ CallExit \/ Close \/ alt_exit
  \/ Interrupt
-----------------------------------------------------------------------------
(* Whenever main() runs, also after resets at any moment, it finds what it *)
(* would find the first time: the device registered once, the standard     *)
(* streams open on it, its handler registered with interrupts enabled and  *)
(* every constructor run once, the last of the list first                  *)
(* (alt_main.c:82-160, alt_load.c:56-88).                                  *)
MainFindsAll ==
  phase = "main" =>
    /\ rwdata.driver \in IF build.small THEN {"initial"} ELSE {"running", "used"}
    /\ ~build.direct =>
         /\ rwdata.alt_dev_list = <<"uart">>
         /\ \A file \in 0 .. 2 : rwdata.alt_fd_list[file] = "uart"
    /\ pie /\ (~build.small => bss.alt_irq /\ ienable /\ ie)
    /\ bss.built = IF build.cpp THEN Reversed(Ctors) ELSE <<>>
    /\ bss.destroyed = <<>>

(* The constructors may already use the streams (alt_main.c:109-130).      *)
StreamsBeforeConstructors ==
  phase = "_do_ctors" /\ ~build.direct =>
    \A file \in 0 .. 2 : rwdata.alt_fd_list[file] = "uart"

(* No interrupt is taken before the exception code is in its place and     *)
(* visible to the processor, and none is passed on to a handler that is    *)
(* not registered or whose variables are not initialised                   *)
(* (alt_sys_init.c:79-93, alt_load.c:86-87).                               *)
InterruptsFindHandler ==
  /\ pie => exceptions = "loaded" /\ insync /\ bss # Garbage /\ rwdata # Garbage
  /\ pie /\ ienable => bss.alt_irq

(* The destructors run once, after everything else, when the program ends  *)
(* and the BSP was built to end it cleanly; otherwise not at all           *)
(* (alt_main.c:131-156).                                                   *)
DestroyedAtCleanExit ==
  phase = "stopped" =>
    bss.destroyed = IF build.cpp /\ build.exit = "clean" THEN bss.built ELSE <<>>
=============================================================================
