---------------------------- MODULE PanelProofs ----------------------------
(***************************************************************************)
(* For every number of modes and every set of commands that satisfy        *)
(* MaxModeAssumption and CommandAssumption, the mode that the keys, the    *)
(* commands and the reports leave behind always has a screen.  PanelTypeOK *)
(* says only that it is a number; ModesHaveScreens is the strengthening    *)
(* that the steps preserve: the mode is one of the environment's, and so   *)
(* is every copy of it that is going to be stored, the argument of the     *)
(* command handler and the modes in the reports to come.                   *)
(***************************************************************************)
EXTENDS Panel, TLAPS, SequenceTheorems

ModeReport == [service : Service, mode : Mode]

ModesHaveScreens ==
  /\ ModeHasScreen
  /\ watched \in Mode /\ arg \in Mode
  /\ todo \in Seq(ModeReport)

PanelInv == PanelTypeOK /\ ModesHaveScreens

LEMMA ModeFacts ==
  /\ Mode \subseteq Nat /\ 0 \in Mode /\ Keep \notin Mode
  /\ 0 .. 3 \subseteq Mode
  /\ \A menu \in Menu, n \in Mode : MaxMode[menu] \in Nat /\
       (n + 1 < MaxMode[menu] => n + 1 \in Mode)
BY MaxModeAssumption DEF Mode, Menu, ENVIRONMENT_MENU, Keep, COMBUSTIBLE_GAS_MODE

LEMMA ReportFacts == Seq(ModeReport) \subseteq Seq([service : Service, mode : Nat])
<1>1. ModeReport \subseteq [service : Service, mode : Nat]
  BY ModeFacts DEF ModeReport
<1> QED BY <1>1, SeqMonotonic

(* Whatever menu is selected, the mode key leads to a mode with a screen.  *)
LEMMA KeyStaysInModes ==
  ASSUME PanelInv PROVE Wrapped(g_current_mode + 1) \in Mode
BY ModeFacts DEF PanelInv, PanelTypeOK, ModesHaveScreens, ModeHasScreen, Wrapped, Mode

(* What IOTDEMO reports for a mode stays in the modes, whatever the menu.  *)
LEMMA ReportsType ==
  ASSUME NEW menu \in Menu, NEW mode \in Mode
  PROVE  Reports(menu, mode) \in Seq(ModeReport)
<1>1. ASSUME NEW service \in Service, NEW m \in Mode
      PROVE  Report(service, m) \in ModeReport
  BY <1>1 DEF Report, ModeReport
<1>2. Modules(mode) \in Seq(Mode)
  BY ModeFacts DEF Modules, ENV_ALL_MODE, ENV_TEMPERRATURE_MODE, COMBUSTIBLE_GAS_MODE
<1>3. [k \in DOMAIN Modules(mode) |-> Report("Environment", Modules(mode)[k])]
        \in Seq(ModeReport)
  <2>1. \A k \in DOMAIN Modules(mode) : Modules(mode)[k] \in Mode
    BY <1>2
  <2>2. \A k \in DOMAIN Modules(mode) :
          Report("Environment", Modules(mode)[k]) \in ModeReport
    BY <1>1, <2>1 DEF Service
  <2>3. Len(Modules(mode)) \in Nat /\ DOMAIN Modules(mode) = 1 .. Len(Modules(mode))
    BY <1>2, LenProperties
  <2> QED BY <2>2, <2>3, SeqDef
<1>4. \A service \in Service : <<Report(service, mode)>> \in Seq(ModeReport)
  BY <1>1
<1>5. Reports(menu, mode) \in
        {<<>>, <<Report("ColorfulLight", mode)>>, <<Report("TrafficLight", mode)>>,
         [k \in DOMAIN Modules(mode) |-> Report("Environment", Modules(mode)[k])]}
  BY DEF Reports
<1>6. <<>> \in Seq(ModeReport)
  OBVIOUS
<1> QED BY <1>3, <1>4, <1>5, <1>6 DEF Service

LEMMA InitInv == Init => PanelInv
<1> SUFFICES ASSUME Init PROVE PanelInv
  OBVIOUS
<1>1. todo \in Seq(ModeReport) /\ (demo = "report") = (todo # <<>>)
  BY DEF Init
<1>2. g_menu_select \in Menu
  BY DEF Init, Menu, COLORFUL_LIGHT_MENU
<1>3. beep \in BOOLEAN
  BY DEF Init
<1> QED
  BY <1>1, <1>2, <1>3, ModeFacts, ReportFacts DEF Init, PanelInv, PanelTypeOK,
    ModesHaveScreens, ModeHasScreen, Level

(* app_main: the display loop only copies the mode.                        *)
LEMMA MainInv == PanelInv /\ (StartUp \/ DisplayLoop) => PanelInv'
<1> SUFFICES ASSUME PanelInv, StartUp \/ DisplayLoop PROVE PanelInv'
  OBVIOUS
<1> USE DEF PanelInv, PanelTypeOK, ModesHaveScreens, ModeHasScreen, demoVars,
        handlerVars, menuVars, gasVars, screenVars
<1>1. CASE StartUp
  BY <1>1 DEF StartUp, RegisterKeys, SelectMenu, SelectSubMode, OledReady, Menu,
    ENVIRONMENT_MENU
<1>2. CASE DisplayLoop
  <2>1. CASE DrawScreen BY <1>2, <2>1 DEF DisplayLoop, DrawScreen
  <2>2. CASE EnterShow BY <1>2, <2>2, ModeFacts DEF DisplayLoop, EnterShow
  <2>3. CASE Show
    <3>1. g_combustible_gas_value' \in Level /\ beep' \in BOOLEAN
      BY <2>3 DEF Show, ShowUntil, mq2_get_data
    <3>2. watched' \in Mode
      BY <2>3, ModeFacts DEF Show, ShowUntil
    <3> QED BY <1>2, <2>3, <3>1, <3>2, ModeFacts DEF DisplayLoop, Show, ShowUntil
  <2> QED BY <1>2, <2>1, <2>2, <2>3 DEF DisplayLoop
<1> QED BY <1>1, <1>2

LEMMA KeyInv == PanelInv /\ gpio5_isr_func_mode => PanelInv'
<1> SUFFICES ASSUME PanelInv, gpio5_isr_func_mode PROVE PanelInv'
  OBVIOUS
<1>1. g_current_mode' \in Mode
  BY KeyStaysInModes DEF gpio5_isr_func_mode, PanelInv, ModesHaveScreens, ModeHasScreen
<1>2. g_menu_select' \in Menu
  BY DEF gpio5_isr_func_mode, PanelInv, PanelTypeOK, Menu, MAX_FUNCTION_DEMO_NUM
<1> QED
  BY <1>1, <1>2, ModeFacts DEF gpio5_isr_func_mode, PanelInv, PanelTypeOK,
    ModesHaveScreens, ModeHasScreen, demoVars, handlerVars, screenVars, gasVars

(* IOTDEMO: a report of the traffic light stores the mode it was woken     *)
(* with, however the mode has changed since.                               *)
LEMMA DemoInv == PanelInv /\ DemoEntry => PanelInv'
<1> SUFFICES ASSUME PanelInv, DemoEntry PROVE PanelInv'
  OBVIOUS
<1> USE DEF PanelInv, PanelTypeOK, ModesHaveScreens, ModeHasScreen, menuVars,
        screenVars, gasVars, handlerVars
<1>1. CASE WifiIsReady
  BY <1>1 DEF DemoEntry, WifiIsReady
<1>2. CASE WakeUp
  <2>1. todo' \in Seq(ModeReport)
    BY <1>2, ReportsType DEF WakeUp
  <2> QED BY <1>2, <2>1, ReportFacts DEF DemoEntry, WakeUp
<1>3. CASE ReportModule
  <2>1. todo \in Seq(ModeReport) /\ todo # <<>> /\ todo' = Tail(todo)
    BY <1>3 DEF ReportModule, ReportThen
  <2>2. /\ Head(todo) \in ModeReport /\ todo' \in Seq(ModeReport)
        /\ Len(todo') = Len(todo) - 1 /\ Len(todo) \in Nat
    BY <2>1, HeadTailProperties
  <2>3. (todo' # <<>>) = (Len(todo) # 1)
    <3>1. \A s \in Seq(ModeReport) : s # <<>> <=> Len(s) # 0 BY EmptySeq
    <3>2. todo' # <<>> <=> Len(todo') # 0 BY <2>2, <3>1
    <3> QED BY <2>2, <3>2
  <2>4. demo' = IF Len(todo) = 1 THEN "sleep" ELSE "report"
    BY <1>3 DEF ReportModule, ReportThen
  <2>5. g_current_mode' \in Mode
    <3>1. Head(todo).mode \in Mode BY <2>2 DEF ModeReport
    <3> QED BY <1>3, <3>1 DEF ReportModule, ReportThen, setup_trfl_module
  <2>6. UNCHANGED <<menuVars, main, screenVars, air, gasVars, handlerVars>>
    BY <1>3 DEF DemoEntry, ReportModule, ReportThen
  <2> QED BY <2>2, <2>3, <2>4, <2>5, <2>6, ModeFacts, ReportFacts
<1> QED BY <1>1, <1>2, <1>3 DEF DemoEntry

LEMMA CommandType ==
  /\ \A c \in Command : c.mode # Keep => c.mode \in Mode
  /\ cmd \in Command \cup {None} => {cmd.mode} \ {Keep} \subseteq Mode
BY CommandAssumption DEF None

(* DemoMsgRcvCallBack: it passes the mode on, reads it back and stores it. *)
LEMMA HandlerInv == PanelInv /\ DemoMsgRcvCallBack => PanelInv'
<1> SUFFICES ASSUME PanelInv, DemoMsgRcvCallBack PROVE PanelInv'
  OBVIOUS
<1> USE ModeFacts DEF PanelInv, PanelTypeOK, ModesHaveScreens, ModeHasScreen, menuVars,
        screenVars, gasVars, demoVars
<1>1. ASSUME NEW c \in Command, ReceiveCommand(c) PROVE PanelInv'
  BY <1>1, CommandType DEF DemoMsgRcvCallBack, ReceiveCommand
<1>2. CASE CallOption BY <1>2, CommandType DEF DemoMsgRcvCallBack, CallOption
<1>3. CASE StoreOption BY <1>3 DEF DemoMsgRcvCallBack, StoreOption
<1>4. CASE ReportOption BY <1>4 DEF DemoMsgRcvCallBack, ReportOption
<1>5. CASE SetupOption
  BY <1>5 DEF DemoMsgRcvCallBack, SetupOption, setup_trfl_module
<1>6. CASE Respond BY <1>6 DEF DemoMsgRcvCallBack, Respond
<1> QED BY <1>1, <1>2, <1>3, <1>4, <1>5, <1>6 DEF DemoMsgRcvCallBack, HandlerStep

LEMMA PanelInvariant == Spec => []PanelInv
<1>1. Init => PanelInv BY InitInv
<1>2. PanelInv /\ [Next]_vars => PanelInv'
  <2> SUFFICES ASSUME PanelInv, [Next]_vars PROVE PanelInv' OBVIOUS
  <2> USE DEF PanelInv, PanelTypeOK, ModesHaveScreens, ModeHasScreen, menuVars,
          screenVars, gasVars, demoVars, handlerVars
  <2>1. CASE AirChanges
    BY <2>1, AirAssumption DEF AirChanges
  <2>2. CASE UNCHANGED vars
    BY <2>2 DEF vars
  <2> QED BY <2>1, <2>2, MainInv, KeyInv, DemoInv, HandlerInv DEF Next
<1> QED BY <1>1, <1>2, PTL DEF Spec

(* Every variable of the panel keeps its type, and IOTDEMO is in a round   *)
(* of reports exactly while it has modules left to report.                 *)
THEOREM PanelTypeCorrect == Spec => []PanelTypeOK
BY PanelInvariant, PTL DEF PanelInv

(* The loop of environment_func never falls into its default case, in      *)
(* which it would spin without a sleep: keys, commands and the reports of  *)
(* the traffic light, under whatever menu and in whatever order they store *)
(* the mode, leave one that has a screen.                                  *)
THEOREM ModeAlwaysHasScreen == Spec => []ModeHasScreen
BY PanelInvariant, PTL DEF PanelInv, ModesHaveScreens
=============================================================================
