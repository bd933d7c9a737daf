---------------------------- MODULE MCGitWebhook ----------------------------
EXTENDS GitWebhook, TLC

(* Two commits of one type.                                                 *)
MCEvents == {[commit |-> "c1", type |-> "push"], [commit |-> "c2", type |-> "push"]}

(* One event, delivered again: dropped in the window, handled after it or    *)
(* after a restart, while the first handling may still be at work.          *)
MCRepeated == {[commit |-> "c1", type |-> "push"]}

(* One agent the repository's file may enable, and one that is switched off. *)
MCAgents == <<[active |-> TRUE, mandatory |-> FALSE],
              [active |-> FALSE, mandatory |-> TRUE]>>
=============================================================================
