-------------------------- MODULE ShippedScenarios --------------------------
(***************************************************************************)
(* The six scenario files the repository ships, in load order (file names  *)
(* sorted), as parsed, and what the orchestrator loads of them. One unit   *)
(* of time is one second.                                                  *)
(*                                                                         *)
(* Triggers and keywords keep the Korean of the files, romanised. Spoken   *)
(* texts and motion prompts are left out, their labels are not: a payload  *)
(* is the name of its sub-task.                                            *)
(***************************************************************************)
EXTENDS Orchestrator, ScenarioLoader, TLC

Delay(n) == [type |-> "delay", seconds |-> n]
Vlm == [type |-> "vlm"]
Always == [type |-> "always"]
Voice(words) == [type |-> "voice_keyword", keywords |-> words]
All(children) == [type |-> "composite", children |-> children]

Within(timeout, spec) == [timeout_s |-> timeout] @@ spec

Do(label, name) == <<[label |-> label, payload |-> name]>>

(* A sub-task announced on creation and on failure, with these motions and *)
(* this announcement of success.                                           *)
Task(name, motions, announced, success) ==
  [name |-> name, on_create |-> Do("speak", name), on_start |-> motions,
   on_success |-> IF announced THEN Do("speak", name) ELSE <<>>,
   on_fail |-> Do("speak", name), success |-> success]

(* One that always passes at once: it has no on_fail. *)
Passing(name) == [name |-> name, on_create |-> Do("speak", name), success |-> Always]

GoFridge ==
  [name |-> "go_fridge",
   triggers |-> {"naengjanggoro ga", "naengjanggoro"},
   sub_tasks |-> <<Task("go_fridge", Do("navigation", "go_fridge"), TRUE, Within(40, Delay(30)))>>]

GoHome ==
  [name |-> "go_home",
   triggers |-> {"jibeuro ga", "jibeuro", "cheoeum wichiro", "bokgwi"},
   sub_tasks |-> <<Task("go_home", Do("navigation", "go_home"), TRUE, Within(40, Delay(30)))>>]

GoTable ==
  [name |-> "go_table",
   triggers |-> {"siktageuro ga", "siktageuro", "teibeullo ga", "teibeullo"},
   sub_tasks |-> <<Task("go_table", Do("navigation", "go_table"), TRUE, Within(35, Delay(25)))>>]

Greet ==
  [name |-> "greet",
   triggers |-> {"annyeong"},
   sub_tasks |-> <<Passing("greet")>>]

Reference ==
  [name |-> "reference",
   triggers |-> {"repeoreonseu teseuteu"},
   sub_tasks |->
     << Passing("ref_always"),
        Task("ref_delay", <<>>, TRUE, Within(10, Delay(3))),
        Task("ref_voice", <<>>, TRUE, Within(20, Voice({"ne", "ye", "eung"}))),
        Task("ref_composite", <<>>, TRUE,
             Within(30, All(<<Delay(5), Voice({"wallyo", "kkeut"})>>))) >>]

RefrigeratorPickup ==
  [name |-> "refrigerator_pickup",
   triggers |-> {"naengjanggoeseo oi", "oi gajyeowa", "oi hana gajyeoda", "oi butak"},
   sub_tasks |->
     << Task("approach_fridge", Do("navigation", "approach_fridge"), FALSE, Within(25, Vlm)),
        Task("open_door", Do("vla", "open_door"), FALSE, Within(15, Vlm)),
        Task("grasp_cucumber", Do("vla", "grasp_cucumber"), FALSE, Within(15, Vlm)),
        Task("place_on_tray", Do("navigation", "place_on_tray") \o Do("vla", "place_on_tray"),
             TRUE, Within(20, Vlm)) >>]

ShippedDocuments == <<GoFridge, GoHome, GoTable, Greet, Reference, RefrigeratorPickup>>

Shipped == [i \in DOMAIN ShippedDocuments |-> LoadScenario(ShippedDocuments[i])]

(* A command for each, "fetch the cucumber from the fridge" and "go to the *)
(* fridge and fetch the cucumber" (which holds two triggers), and answers. *)
ShippedUtterances ==
  { {"naengjanggoro ga", "naengjanggoro"}, {"bokgwi"}, {"teibeullo"}, {"annyeong"},
    {"repeoreonseu teseuteu"}, {"naengjanggoeseo oi", "oi gajyeowa"},
    {"naengjanggoro ga", "naengjanggoro", "oi gajyeowa"}, {"ne"}, {"wallyo"} }

ShippedVerdicts ==
  [subtask_id : {"approach_fridge", "open_door", "grasp_cucumber", "place_on_tray"},
   passed : BOOLEAN]

ShippedHorizon == 40
=============================================================================
