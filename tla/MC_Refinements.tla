---------------------------- MODULE MC_Refinements ----------------------------
(***************************************************************************)
(* A small instance of Refinements: two processes, a skill file with two   *)
(* sections, the markers and a front, a file without any of these, and a   *)
(* few drafts at a time.                                                   *)
(***************************************************************************)
EXTENDS Refinements

CONSTANTS r1, r2

Line(s) == <<"line", s>>
Skill == [front |-> [k \in {"name", "layer"} |-> "old"],
          items |-> <<Line("intro"), Head2("Pitfalls"), Line("p"), Below, Line("q"), Above,
                      Head2("More"), Line("r")>>]
Plain == [front |-> NoFront, items |-> <<Head2("More"), Above, Below>>]

MCTargets == {"skill", "plain"}
MCOriginal == [t \in MCTargets |-> IF t = "skill" THEN Skill ELSE Plain]

(* A draft of this name for a target's section, and the odd ones.          *)
Says(op, t, s, d) ==
    [form |-> "ok", op |-> op, target |-> t, section |-> s, key |-> NoKey,
     value |-> "new", body |-> <<Line(d)>>]

MCNote ==
    [a1 |-> Says("append", "skill", "Pitfalls", "a1"),
     a2 |-> [Says("append", "skill", "Pitfalls", "a2")
                EXCEPT !.body = <<Head2("Proposed addition"), Line("a2")>>],
     a3 |-> Says("append", "plain", "Pitfalls", "a3"),
     a4 |-> Says("append", "gone", "More", "a4"),
     b1 |-> Says("replace_section", "skill", "Pitfalls", "b1"),
     b2 |-> [Says("replace_section", "skill", "More", "b2")
                EXCEPT !.body = <<Line("b2"), Head2("More"), Line("b3")>>],
     c1 |-> Says("add_alias", "skill", NoSection, "c1"),
     c2 |-> Says("add_alias", "plain", NoSection, "c2"),
     e1 |-> [Says("set_config_default", "skill", NoSection, "e1") EXCEPT !.key = "layer"],
     e2 |-> [Says("set_config_default", "plain", NoSection, "e2") EXCEPT !.key = "layer"],
     e3 |-> [Says("set_config_default", "skill", NoSection, "e3") EXCEPT !.key = "depth"],
     f1 |-> Says("append", NoTarget, "More", "f1"),
     f2 |-> [Says("append", "skill", "More", "f2") EXCEPT !.form = "malformed"],
     f3 |-> [Says("append", "skill", "More", "f3") EXCEPT !.form = "no_evidence"],
     f4 |-> Says("add_region", "skill", NoSection, "f4")]

MCDrafts == DOMAIN MCNote
MCRank == [d \in MCDrafts |->
    CHOOSE i \in 1..15 : <<"a1", "a2", "a3", "a4", "b1", "b2", "c1", "c2",
                           "e1", "e2", "e3", "f1", "f2", "f3", "f4">>[i] = d]

MCStarts == [r \in Reviewers |-> IF r = r1 THEN 2 ELSE 1]

(* Drafts for one section, for one target and for two, and the odd ones    *)
(* after a good one.                                                       *)
MCBatches == {{"a1", "a2"}, {"b1", "c1"}, {"c1", "e1"}, {"a3", "c2"}, {"a4", "e2"},
              {"b2", "f1"}, {"a1", "f2"}, {"e3", "f3"}, {"e3", "f4"}}
==============================================================================
