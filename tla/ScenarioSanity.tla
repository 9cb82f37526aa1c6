--------------------------- MODULE ScenarioSanity ---------------------------
(***************************************************************************)
(* The scenario sanity check of ci.yml, as far as it asks for more than    *)
(* the loader does: keys, hook labels, and who needs an on_fail. Left out  *)
(* are its check of the criteria, which the loader makes stricter, and     *)
(* that of triggers that contain one another.                              *)
(***************************************************************************)
EXTENDS Startup

ScenarioKeys == {"name", "triggers", "sub_tasks"}
SubtaskKeys == {"name", "success"} \cup Hooks

(* Its can_fail: by the type at the top of the criterion. *)
MayFail(s) == Get(Success(s), "type", "") # "always"

SaneSubtask(s) ==
  /\ "name" \in DOMAIN s
  /\ DOMAIN s \subseteq SubtaskKeys
  /\ \A hook \in Hooks : \A step \in Range(Get(s, hook, <<>>)) : HasConnector(step)
  /\ MayFail(s) <=> Get(s, "on_fail", <<>>) # <<>>

Sane(doc) ==
  /\ DOMAIN doc = ScenarioKeys
  /\ \A s \in Range(Subs(doc)) : SaneSubtask(s)

(* With sane files no failure ends at the cancellations: whoever published *)
(* FAILED went on to act, through a connector there is.                    *)
FailureActs ==
  [][(/\ \A i \in DOMAIN disk : Sane(disk[i])
      /\ \E i \in DOMAIN task_status' : task_status'[i].state = "FAILED")
       => cmds' # <<>> /\ cmds'[Len(cmds')].op = "dispatch"]_vars
=============================================================================
