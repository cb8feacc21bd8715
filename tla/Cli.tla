-------------------------------- MODULE Cli --------------------------------
(***************************************************************************)
(* The `bris` program runs the subcommand it is given.  Of its subcommands, *)
(* Serve and Update keep state that lives through more than one step.       *)
(***************************************************************************)
EXTENDS Serve, Update

VARIABLE command     \* the subcommand on the command line

clivars == <<command, vars, uvars>>

CInit == SInit /\ UInit /\ command \in {"serve", "update"}

CServe  == command = "serve"  /\ SNext /\ UNCHANGED <<command, uvars>>
CUpdate == command = "update" /\ UNext /\ UNCHANGED <<command, vars>>

CNext == CServe \/ CUpdate

\* The fairness of Serve, for the process that runs it.
CFairness ==
  /\ WF_clivars(command = "serve" /\ Main /\ UNCHANGED <<command, uvars>>)
  /\ WF_clivars(command = "serve" /\ Capture /\ UNCHANGED <<command, uvars>>)

CSpec == CInit /\ [][CNext]_clivars /\ CFairness

=============================================================================
