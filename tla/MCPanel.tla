------------------------------ MODULE MCPanel ------------------------------
(* Instances of Panel for TLC.  AllModes are the numbers of the code; with *)
(* FourModes the environment menu has only the four reported screens, the  *)
(* other menus at most as many.                                            *)
EXTENDS Panel

AllModes == [menu \in Menu |-> <<8, 4, 9, 6>>[menu + 1]]
FourModes == [menu \in Menu |-> <<4, 4, 4, 3>>[menu + 1]]

EnvCommand(m) == [service |-> "Environment", mode |-> m]
LampCommand(m) == [service |-> "ColorfulLight", mode |-> m]
TrafficCommand(m) == [service |-> "TrafficLight", mode |-> m]

AllCommands ==
  {EnvCommand(m) : m \in (0 .. 3) \cup {Keep}} \cup {LampCommand(m) : m \in 0 .. 6}
    \cup {TrafficCommand(m) : m \in (0 .. 2) \cup {Keep}}
BothLamps == {LampCommand(3), TrafficCommand(1)}
=============================================================================
