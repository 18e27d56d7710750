------------------------------- MODULE Panel -------------------------------
(***************************************************************************)
(* The environment panel (CONFIG_ENVIRONMENTAL_MONITORING): the task       *)
(* app_main shows the screen of g_current_mode and reads the sensors that  *)
(* screen needs (app_demo_environment.c), the mode key's interrupt steps   *)
(* g_current_mode (app_demo_multi_sample.c), the command handler that      *)
(* IoTMain runs overwrites it, and the task IOTDEMO reports the module of  *)
(* the mode to the cloud every second (app_demo_iot.c).  The reports of    *)
(* the traffic light store the mode they report.  Nothing guards the       *)
(* shared globals.                                                         *)
(*                                                                         *)
(* Left out: g_current_type, which this build writes and never reads, and  *)
(* with it the type key; oc_beep_status and the key on GPIO 8, likewise;   *)
(* the messages that a command's reports send.  An interrupt that          *)
(* the debouncing of gpio5_isr_func_mode rejects changes nothing.          *)
(***************************************************************************)
EXTENDS Naturals, Sequences

CONSTANTS MaxMode,   \* MaxMode[menu]: the number of modes of a menu's function
          Command,   \* [service, mode]: the commands the cloud sends
          Air        \* the gas concentrations that occur

Menu == 0 .. 3                 \* hi_select_menu_mode
COLORFUL_LIGHT_MENU == 0
TRAFFIC_LIGHT_MENU == 1
ENVIRONMENT_MENU == 2
MAX_FUNCTION_DEMO_NUM == 4

ENV_ALL_MODE == 0              \* hi_environment_mode; the modes from CO2_MODE on
ENV_TEMPERRATURE_MODE == 1     \* have a screen but no report
ENV_HUMIDITY_MODE == 2
COMBUSTIBLE_GAS_MODE == 3

UNION_DETECT_MODE == 6         \* the last modes that the lamps report: theirs
TRAFFIC_HUMAN_MODE == 2        \* begin with 0 too and end with a return mode

Mode == 0 .. MaxMode[ENVIRONMENT_MENU] - 1
Keep == MaxMode[ENVIRONMENT_MENU] \* not a mode: a command without a known name
Service == {"TrafficLight", "ColorfulLight", "Environment"}
None == [service |-> "none", mode |-> Keep]

(* The environment menu has the most modes, and no command asks for one it *)
(* does not have.                                                          *)
ASSUME MaxModeAssumption ==
  /\ MaxMode \in [Menu -> Nat \ {0}]
  /\ \A menu \in Menu : MaxMode[menu] <= MaxMode[ENVIRONMENT_MENU]
  /\ COMBUSTIBLE_GAS_MODE \in Mode
ASSUME CommandAssumption ==
  Command \subseteq [service : Service, mode : Mode \cup {Keep}]

(* None at all (0.0 ppm), some, or more than 3000 ppm.                     *)
Level == {"none", "some", "alarm"}
ASSUME AirAssumption == Air \subseteq Level

VARIABLES
  g_menu_select, g_menu_mode, g_current_mode,
  main,         \* where app_main is
  drawn,        \* the mode whose screen is on the OLED
  watched,      \* current_mode of the running show function, 0 outside of it
  air,          \* the gas the MQ2 would measure now
  g_combustible_gas_value, \* and what it measured last
  beep,         \* the buzzer sounds (and count of mq2_get_ppm is 1)
  demo,         \* where the task IOTDEMO is
  todo,         \* the modules of a service it has still to report in this round
  handler,      \* where DemoMsgRcvCallBack is
  cmd,          \* the command it handles
  arg           \* app_option_mode, then the mode of its switch; 0 outside

menuVars == <<g_menu_select, g_menu_mode>>
screenVars == <<drawn, watched>>
gasVars == <<g_combustible_gas_value, beep>>
demoVars == <<demo, todo>>
handlerVars == <<handler, cmd, arg>>
vars == <<menuVars, g_current_mode, main, screenVars, air, gasVars, demoVars,
          handlerVars>>

Init ==
  /\ g_menu_select = COLORFUL_LIGHT_MENU
  /\ g_menu_mode = "MAIN_FUNCTION_SELECT_MODE"
  /\ g_current_mode = 0
  /\ main = "app_main"
  /\ drawn = 0 /\ watched = 0
  /\ air = "none" /\ g_combustible_gas_value = "none" /\ beep = FALSE
  /\ demo = "WifiStaReadyWait" /\ todo = <<>>
  /\ handler = "idle" /\ cmd = None /\ arg = 0

-----------------------------------------------------------------------------
(* app_main, after it created the task IOTDEMO.                            *)

(* app_multi_sample_demo: from here on the key interrupts.                 *)
RegisterKeys ==
  /\ main = "app_main"
  /\ main' = "keys"
  /\ UNCHANGED <<menuVars, g_current_mode, screenVars, gasVars>>

SelectMenu ==
  /\ main = "keys"
  /\ g_menu_select' = ENVIRONMENT_MENU
  /\ main' = "menu"
  /\ UNCHANGED <<g_menu_mode, g_current_mode, screenVars, gasVars>>

SelectSubMode ==
  /\ main = "menu"
  /\ g_menu_mode' = "SUB_MODE_SELECT_MODE"
  /\ main' = "oled_init"
  /\ UNCHANGED <<g_menu_select, g_current_mode, screenVars, gasVars>>

(* environment_func waits for the OLED, for ever if there is none.         *)
OledReady ==
  /\ main = "oled_init"
  /\ main' = "switch"
  /\ UNCHANGED <<menuVars, g_current_mode, screenVars, gasVars>>

(* The switch of environment_func: a case clears the screen and draws its  *)
(* heading.  No case matches a mode beyond the last; the loop would then   *)
(* spin without a sleep.                                                   *)
DrawScreen ==
  /\ main = "switch" /\ g_current_mode \in Mode
  /\ drawn' = g_current_mode
  /\ main' = "enter"
  /\ UNCHANGED <<menuVars, g_current_mode, watched, gasVars>>

(* Every show function begins by reading the mode once more.               *)
EnterShow ==
  /\ main = "enter"
  /\ watched' = g_current_mode
  /\ main' = "show"
  /\ UNCHANGED <<menuVars, g_current_mode, drawn, gasVars>>

(* Mutant: the buzzer is only ever switched on.                            *)
mq2_get_dataKeepsOn ==
  /\ g_combustible_gas_value' = air
  /\ beep' = (air = "alarm" \/ beep)

(* mq2_get_data: on high concentration the buzzer is toggled.  The ADC is  *)
(* taken to answer.                                                        *)
mq2_get_data ==
  /\ g_combustible_gas_value' = air
  /\ beep' = (air = "alarm" /\ ~beep)

ShowUntil(leave) ==
  /\ main = "show"
  /\ IF drawn \in {ENV_ALL_MODE, COMBUSTIBLE_GAS_MODE}
       THEN mq2_get_data ELSE UNCHANGED gasVars
  /\ main' = IF leave THEN "switch" ELSE "show"
  /\ watched' = IF leave THEN 0 ELSE watched
  /\ UNCHANGED <<menuVars, g_current_mode, drawn>>

(* Mutant: only the next modes are noticed, not the first after the last.  *)
ShowUntilHigher == ShowUntil(g_current_mode > watched)

(* One round of a show function: read and print the sensors of its screen, *)
(* then leave if the mode changed.                                         *)
Show == ShowUntil(g_current_mode # watched)

-----------------------------------------------------------------------------
(* gpio5_isr_func_mode, in interrupt context; called by get_gpio5_voltage  *)
(* when the voltage is that of the mode key.                               *)

(* Mutant: off by one.                                                     *)
WrappedLate(n) == IF n > MaxMode[g_menu_select] THEN 0 ELSE n

Wrapped(n) == IF n >= MaxMode[g_menu_select] THEN 0 ELSE n

gpio5_isr_func_mode ==
  /\ main # "app_main"
  /\ \/ /\ g_menu_mode = "MAIN_FUNCTION_SELECT_MODE"
        /\ g_menu_select' = (g_menu_select + 1) % MAX_FUNCTION_DEMO_NUM
        /\ UNCHANGED g_current_mode
     \/ /\ g_menu_mode = "SUB_MODE_SELECT_MODE"
        /\ g_current_mode' = Wrapped(g_current_mode + 1)
        /\ UNCHANGED g_menu_select
  /\ UNCHANGED <<g_menu_mode, main, screenVars, air, gasVars, demoVars, handlerVars>>

-----------------------------------------------------------------------------
(* The reports.  A setup function reports its module only if it is called  *)
(* with that module's mode; gas is reported only when there is some.       *)

SetupReports(module, mode) ==
  mode = module /\ (module = COMBUSTIBLE_GAS_MODE => g_combustible_gas_value # "none")

(* oc_environment_status_report: the case of ENV_ALL_MODE falls through.   *)
CalledWith(mode) ==
  IF mode = ENV_ALL_MODE THEN {ENV_ALL_MODE, ENV_TEMPERRATURE_MODE} ELSE {mode}

StatusReport(mode, module) ==
  {m \in {module} : \E c \in CalledWith(mode) : SetupReports(m, c)}

(* Mutant: the case of humidity is missing.                                *)
ModulesNoHumidity(mode) ==
  CASE mode = ENV_ALL_MODE -> <<ENV_ALL_MODE, ENV_TEMPERRATURE_MODE>>
    [] mode \in {ENV_TEMPERRATURE_MODE, COMBUSTIBLE_GAS_MODE} -> <<mode>>
    [] OTHER -> <<>>

(* What the environment's switch of DemoEntry reports for a mode, in       *)
(* order; here too the case of ENV_ALL_MODE falls through.                 *)
Modules(mode) ==
  CASE mode = ENV_ALL_MODE -> <<ENV_ALL_MODE, ENV_TEMPERRATURE_MODE>>
    [] mode \in ENV_TEMPERRATURE_MODE .. COMBUSTIBLE_GAS_MODE -> <<mode>>
    [] OTHER -> <<>>

Report(service, mode) == [service |-> service, mode |-> mode]

(* The three switches of DemoEntry.                                        *)
Reports(menu, mode) ==
  CASE menu = COLORFUL_LIGHT_MENU /\ mode <= UNION_DETECT_MODE
         -> <<Report("ColorfulLight", mode)>>
    [] menu = TRAFFIC_LIGHT_MENU /\ mode <= TRAFFIC_HUMAN_MODE
         -> <<Report("TrafficLight", mode)>>
    [] menu = ENVIRONMENT_MENU
         -> [k \in DOMAIN Modules(mode) |-> Report("Environment", Modules(mode)[k])]
    [] OTHER -> <<>>

(* setup_trfl_control_module, setup_trfl_auto_module and                   *)
(* setup_trfl_human_module: each begins by storing its mode.               *)
setup_trfl_module(mode) == g_current_mode' = mode

-----------------------------------------------------------------------------
(* DemoEntry, the task IOTDEMO.                                            *)

WifiIsReady ==
  /\ demo = "WifiStaReadyWait"
  /\ demo' = "sleep"
  /\ UNCHANGED <<todo, menuVars, g_current_mode>>

(* After a second's sleep it looks at the menu, which stays once           *)
(* g_menu_mode has been set, and at the mode.                              *)
WakeUp ==
  /\ demo = "sleep" /\ g_menu_mode = "SUB_MODE_SELECT_MODE"
  /\ todo' = Reports(g_menu_select, g_current_mode)
  /\ demo' = IF todo' = <<>> THEN "sleep" ELSE "report"
  /\ UNCHANGED <<menuVars, g_current_mode>>

ReportThen(next) ==
  /\ demo = "report"
  /\ todo' = Tail(todo)
  /\ IF Head(todo).service = "TrafficLight"
       THEN setup_trfl_module(Head(todo).mode) ELSE UNCHANGED g_current_mode
  /\ demo' = next
  /\ UNCHANGED menuVars

(* Mutant: the round does not end with its last module.                    *)
ReportModuleOverruns == ReportThen("report")

ReportModule == ReportThen(IF Len(todo) = 1 THEN "sleep" ELSE "report")

(* The report reaches the queue of IoTMain or is refused by it.            *)
Reported(module) ==
  /\ ReportModule /\ Head(todo) = Report("Environment", module)
  /\ module \in StatusReport(module, module)

DemoEntry ==
  /\ WifiIsReady \/ WakeUp \/ ReportModule
  /\ UNCHANGED <<main, screenVars, air, gasVars, handlerVars>>

-----------------------------------------------------------------------------
(* DemoMsgRcvCallBack, run by IoTMain.                                     *)

(* The payload's service and command name decide; the mode is set.  For    *)
(* the environment oc_environment_app_option is called even if no name     *)
(* was known.                                                              *)
ReceiveCommand(c) ==
  /\ handler = "idle" /\ demo # "WifiStaReadyWait"
  /\ cmd' = c
  /\ g_current_mode' = IF c.mode = Keep THEN g_current_mode ELSE c.mode
  /\ handler' = IF c.mode = Keep /\ c.service # "Environment" THEN "respond" ELSE "call"
  /\ UNCHANGED arg

(* The mode is an argument of oc_*_app_option: the code reads it back, a   *)
(* compiler may pass the value it has just stored.                         *)
CallOption ==
  /\ handler = "call"
  /\ arg' \in {g_current_mode} \cup ({cmd.mode} \ {Keep})
  /\ handler' = "option"
  /\ UNCHANGED <<g_current_mode, cmd>>

(* g_current_mode = app_option_mode: stored a second time, over whatever   *)
(* the key did meanwhile.                                                  *)
StoreOption ==
  /\ handler = "option"
  /\ g_current_mode' = arg
  /\ handler' = "switch"
  /\ UNCHANGED <<cmd, arg>>

(* The switch of oc_*_app_option, which reads g_current_mode or what was   *)
(* stored to it, and the reports, which go to the queue of IoTMain, see    *)
(* IotSystem.  A case of the traffic light calls a setup_trfl function.    *)
ReportOption ==
  /\ handler = "switch"
  /\ \E mode \in {arg, g_current_mode} :
       IF cmd.service = "TrafficLight" /\ mode <= TRAFFIC_HUMAN_MODE
         THEN handler' = "setup" /\ arg' = mode
         ELSE handler' = "respond" /\ arg' = 0
  /\ UNCHANGED <<g_current_mode, cmd>>

(* It stores the mode once more.                                           *)
SetupOption ==
  /\ handler = "setup"
  /\ setup_trfl_module(arg)
  /\ handler' = "respond" /\ arg' = 0
  /\ UNCHANGED cmd

(* IoTProfileCmdResp says that the command succeeded, whatever it was.     *)
Respond ==
  /\ handler = "respond"
  /\ handler' = "idle" /\ cmd' = None
  /\ UNCHANGED <<g_current_mode, arg>>

HandlerStep ==
  CallOption \/ StoreOption \/ ReportOption \/ SetupOption \/ Respond

DemoMsgRcvCallBack ==
  /\ HandlerStep \/ \E c \in Command : ReceiveCommand(c)
  /\ UNCHANGED <<menuVars, main, screenVars, air, gasVars, demoVars>>

-----------------------------------------------------------------------------
AirChanges ==
  /\ air' \in Air
  /\ UNCHANGED <<menuVars, g_current_mode, main, screenVars, gasVars, demoVars,
                 handlerVars>>

DisplayLoop ==
  /\ DrawScreen \/ EnterShow \/ Show
  /\ UNCHANGED <<air, demoVars, handlerVars>>

StartUp ==
  /\ RegisterKeys \/ SelectMenu \/ SelectSubMode \/ OledReady
  /\ UNCHANGED <<air, demoVars, handlerVars>>

Next ==
  \/ StartUp \/ DisplayLoop \/ gpio5_isr_func_mode
  \/ DemoEntry \/ DemoMsgRcvCallBack \/ AirChanges

Spec == Init /\ [][Next]_vars

(* The display loop and IOTDEMO sleep in every round and block at most for *)
(* the time-out of IotSendMsg: LiteOS lets each go on.  Nothing is assumed *)
(* of the OLED, the Wi-Fi, the keys and the cloud.                         *)
Fairness ==
  /\ WF_vars(DisplayLoop)
  /\ WF_vars(DemoEntry /\ demo # "WifiStaReadyWait")
  /\ WF_vars(DemoMsgRcvCallBack /\ handler # "idle")

FairSpec == Spec /\ Fairness

-----------------------------------------------------------------------------
PanelTypeOK ==
  /\ g_menu_select \in Menu
  /\ g_menu_mode \in {"MAIN_FUNCTION_SELECT_MODE", "SUB_MODE_SELECT_MODE"}
  /\ g_current_mode \in Nat
  /\ main \in {"app_main", "keys", "menu", "oled_init", "switch", "enter", "show"}
  /\ drawn \in Mode /\ watched \in Nat
  /\ air \in Level /\ g_combustible_gas_value \in Level /\ beep \in BOOLEAN
  /\ demo \in {"WifiStaReadyWait", "sleep", "report"}
  /\ todo \in Seq([service : Service, mode : Nat])
  /\ (demo = "report") = (todo # <<>>)
  /\ handler \in {"idle", "call", "option", "switch", "setup", "respond"}
  /\ cmd \in Command \cup {None}
  /\ arg \in Nat

(* The mode is always one that environment_func has a screen for, so its   *)
(* loop never spins in the default case, although the mode is stepped      *)
(* under the bound of whatever menu was selected, set by commands for      *)
(* other boards, and stored again by the handler and by the reports of the *)
(* traffic light.                                                          *)
ModeHasScreen == g_current_mode \in Mode

(* A change of the mode that comes while a screen is being shown, be it by *)
(* key or by command, is drawn, unless the mode changes again first.       *)
ChangeIsDrawn ==
  \A m \in Mode :
    (main = "show" /\ watched # m /\ g_current_mode = m)
      ~> (drawn = m \/ g_current_mode # m)

(* While a mode stays selected the cloud goes on getting its module, even  *)
(* if keys and commands interrupted the round before.                      *)
ReporterFollows ==
  \A m \in {ENV_ALL_MODE, ENV_TEMPERRATURE_MODE, ENV_HUMIDITY_MODE} :
    (/\ <>(demo # "WifiStaReadyWait")
     /\ <>[](/\ g_menu_select = ENVIRONMENT_MENU
             /\ g_menu_mode = "SUB_MODE_SELECT_MODE"
             /\ g_current_mode = m))
      => []<><<Reported(m)>>_vars

(* While a screen that reads the gas sensor stays and the gas stays high,  *)
(* the buzzer goes on and off for ever, and when the gas has gone it falls *)
(* silent.                                                                 *)
AlarmFollowsGas ==
  <>[](main = "show" /\ drawn \in {ENV_ALL_MODE, COMBUSTIBLE_GAS_MODE}) =>
    /\ <>[](air = "alarm") => []<>beep /\ []<>~beep
    /\ <>[](air # "alarm") => <>[]~beep

-----------------------------------------------------------------------------
(* src/app/demo/src/app_demo_i2c_oled.c:663, on the loop that runs         *)
(* environment_func: the OLED shows the content for the mode, in step with *)
(* the hardware.  Once nobody changes the mode any more, its screen is the *)
(* one that stays.                                                         *)
ScreenFollowsMode ==
  \A m \in Mode :
    <>[](main \in {"switch", "enter", "show"} /\ g_current_mode = m)
      => <>[](drawn = m)
=============================================================================
